---- MODULE Spec2Model ----
(***************************************************************************)
(* ISO 11783 / J1939 transport protocol manager (TransportProtocolManager) *)
(* modelled as a state machine.  One manager instance owns the vector      *)
(* activeSessions; the network (peers, application, clock, control         *)
(* function registry) is the environment.  Every C++ function is an        *)
(* operator on a manager context record                                    *)
(*   m = [s, out, cbs, rx, budget, crashed, alloc]                         *)
(* (session vector, frames sent, completion callbacks fired, messages      *)
(* delivered, remaining successful sends, process died, vector storage     *)
(* allocated).                                                             *)
(***************************************************************************)
EXTENDS Integers, Sequences, FiniteSets, TLC

VARIABLES
    activeSessions,   \* std::vector<TransportProtocolSession> of the manager
    allocated,        \* the vector owns storage (capacity > 0)
    crashed,          \* the process was terminated by undefined behaviour
    now,              \* SystemTiming::get_timestamp_ms()
    alive,            \* control functions whose shared_ptr is still owned
    sent,             \* frames handed to the network by the last operation
    callbacks,        \* completion callbacks fired by the last operation
    delivered,        \* messages handed to the network manager callbacks by the last operation
    lastOp,           \* the last operation
    retVal,           \* return value of the last protocol_transmit_message
    config,           \* CANNetworkManager::CANNetwork.get_configuration()
    peer,             \* the manager at the other end of the bus (linked specification)
    server            \* the VirtualTerminalServer and what its last operation sent and fired

vars == <<activeSessions, allocated, crashed, now, alive, sent,
          callbacks, delivered, lastOp, retVal, config, peer, server>>

-----------------------------------------------------------------------------
(* Program constants *)

CAN_DATA_LENGTH == 8
PROTOCOL_BYTES_PER_FRAME == 7
MAX_PROTOCOL_DATA_LENGTH == 1785
T1_TIMEOUT_MS == 750
T2_T3_TIMEOUT_MS == 1250
MESSAGE_TR_TIMEOUT_MS == 200
SEQUENCE_NUMBER_DATA_INDEX == 0
REQUEST_TO_SEND_MULTIPLEXOR == 16
CLEAR_TO_SEND_MULTIPLEXOR == 17
END_OF_MESSAGE_ACKNOWLEDGE_MULTIPLEXOR == 19
BROADCAST_ANNOUNCE_MESSAGE_MULTIPLEXOR == 32
CONNECTION_ABORT_MULTIPLEXOR == 255

AlreadyInCMSession == 1
Timeout == 3
ClearToSendReceivedWhileTransferInProgress == 4
UnexpectedDataTransferPacketReceived == 6
BadSequenceNumber == 7
DuplicateSequenceNumber == 8
AnyOtherError == 250

TP_CM == 60416   \* 0xEC00 TransportProtocolConnectionManagement
TP_DT == 60160   \* 0xEB00 TransportProtocolDataTransfer

U8(x) == x % 256

-----------------------------------------------------------------------------
(* Bounds of the model *)

MaxSessions == 2        \* configured get_max_number_transport_protocol_sessions()
MaxFramesPerUpdate == 2 \* configured get_max_number_of_network_manager_protocol_frames_per_update()
MinBamGap == 50         \* configured get_minimum_time_between_transport_protocol_bam_frames()
MaxTime == 1500         \* the clock stops advancing here
MaxTableLen == 2        \* exploration stops growing the table here

Configuration(maxSessions) ==
    [maxSessions |-> maxSessions, maxFramesPerUpdate |-> MaxFramesPerUpdate, minBamGap |-> MinBamGap]

NULL == "null"
Internal == {"I1"}                 \* control functions owned by this manager
External == {"E1"}           \* control functions of the peers
CF == Internal \cup External
PGNs == {65280, 126720}            \* 0x00FF00, 0x01EF00: parameter group numbers on the bus
TxPGNs == {65280}                  \* parameter group numbers the application and BAM senders use
Callbacks == {TRUE}                \* the application passes a completion callback
TimeSteps == {750}
Budgets == {0, 1, 300}             \* frames the network accepts during one update()
ReplyBudgets == {0, 300}           \* frames the network accepts while a received frame is handled
DataSizes == {8, 9, 1785, 1786}
DataBases == {1}
States == {"None", "ClearToSend", "RxDataSession", "RequestToSend", "WaitForClearToSend",
           "BroadcastAnnounce", "TxDataSession", "WaitForEndOfMessageAcknowledge"}

-----------------------------------------------------------------------------
(* CANTransportData: a view on an application buffer (transmit) or an owned *)
(* vector (receive)                                                         *)

\* the application buffer a CANTransportDataView points to
AppByte(base, i) == (base + (i % 200)) % 256

\* a null std::unique_ptr<CANTransportData>
NullData == [kind |-> "nullptr", size |-> 0, base |-> 0, bytes |-> <<>>]

DataView(size, base) == [kind |-> "view", size |-> size, base |-> base, bytes |-> <<>>]

\* std::make_unique<CANTransportDataVector>() followed by reserve(totalMessageSize):
\* reserve() changes the capacity, the vector keeps size 0
DataVectorReserved(totalMessageSize) ==
    [kind |-> "vector", size |-> 0, base |-> 0, bytes |-> <<>>]

data_size(d) == IF d.kind = "view" THEN d.size ELSE Len(d.bytes)

data_get_byte(d, index) ==
    IF d.kind = "view" THEN AppByte(d.base, index) ELSE d.bytes[index + 1]

data_set_byte(d, index, value) ==
    IF d.kind = "view" THEN d
    ELSE [d EXCEPT !.bytes = [@ EXCEPT ![index + 1] = value]]

\* the bytes a CANMessage built by construct_message() carries
data_contents(d) == [i \in 1..data_size(d) |-> data_get_byte(d, i - 1)]

-----------------------------------------------------------------------------
(* Control functions and weak references *)

\* std::weak_ptr<ControlFunction>::lock() under a given set of live control functions
Lock(al, cf) == IF cf \in al THEN cf ELSE NULL

operator_eq(al, a, b) ==
    /\ Lock(al, a.source) = Lock(al, b.source)
    /\ Lock(al, a.destination) = Lock(al, b.destination)
    /\ a.pgn = b.pgn

get_message_data_length(session) == data_size(session.data)

can_continue(al, session) ==
    ~ (session.source \notin al \/ (~ session.global_destination /\ session.destination \notin al))

-----------------------------------------------------------------------------
(* Sessions *)

\* TransportProtocolSession(Direction, CANTransportMessage&&) with the member defaults
NewSession(dir, pgn, source, destination, data) ==
    [dir |-> dir, pgn |-> pgn, source |-> source, destination |-> destination,
     global_destination |-> (destination = NULL), data |-> data,
     state |-> "None", timestamp_ms |-> 0, lastPacketNumber |-> 0, packetCount |-> 0,
     processedPacketsThisSession |-> 0, clearToSendPacketMax |-> 0,
     sessionCompleteCallback |-> FALSE,
     framesEmitted |-> 0,     \* history: TP.DT frames this session has put on the bus
     announcedPackets |-> 0]  \* history: packet count of the RTS/BAM of this session

set_state(session, value, e) == [session EXCEPT !.state = value, !.timestamp_ms = e.now]

\* SystemTiming::time_expired_ms; the clock does not wrap before MaxTime
time_expired_ms(e, timestamp_ms, timeout_ms) == (e.now - timestamp_ms) >= timeout_ms

\* CANNetworkManager::get_internal_control_function
get_internal_control_function(e, cf) == IF cf \in e.internal THEN cf ELSE NULL

-----------------------------------------------------------------------------
(* Sending frames *)

Frame(pgn, src, dst, data) == [pgn |-> pgn, src |-> src, dst |-> dst, data |-> data]

PgnBytes(pgn) == << pgn % 256, (pgn \div 256) % 256, (pgn \div 65536) % 256 >>

\* CANNetworkManager::send_can_message: result
send_ok(m, sender) == sender # NULL /\ m.budget > 0

\* CANNetworkManager::send_can_message: effect
send_can_message(m, pgn, data, sender, receiver) ==
    IF send_ok(m, sender)
    THEN [m EXCEPT !.out = Append(@, Frame(pgn, sender, receiver, data)), !.budget = @ - 1]
    ELSE m

send_abort(m, sender, receiver, parameterGroupNumber, reason) ==
    send_can_message(m, TP_CM,
                     <<CONNECTION_ABORT_MULTIPLEXOR, U8(reason), 255, 255, 255>> \o PgnBytes(parameterGroupNumber),
                     sender, receiver)

LengthAnnouncement(mux, session) ==
    << mux,
       get_message_data_length(session) % 256,
       (get_message_data_length(session) \div 256) % 256,
       session.packetCount,
       255 >> \o PgnBytes(session.pgn)

send_broadcast_announce_message_ok(m, e, session) == send_ok(m, Lock(e.alive, session.source))

send_broadcast_announce_message(m, e, session) ==
    send_can_message(m, TP_CM, LengthAnnouncement(BROADCAST_ANNOUNCE_MESSAGE_MULTIPLEXOR, session),
                     Lock(e.alive, session.source), NULL)

send_request_to_send_ok(m, e, session) == send_ok(m, Lock(e.alive, session.source))

send_request_to_send(m, e, session) ==
    send_can_message(m, TP_CM, LengthAnnouncement(REQUEST_TO_SEND_MULTIPLEXOR, session),
                     Lock(e.alive, session.source), Lock(e.alive, session.destination))

send_clear_to_send_ok(m, e, session) == send_ok(m, Lock(e.alive, session.destination))

send_clear_to_send(m, e, session) ==
    LET packetsRemaining == U8(session.packetCount - session.processedPacketsThisSession)
        packetsThisSegment == IF session.clearToSendPacketMax < packetsRemaining
                              THEN session.clearToSendPacketMax ELSE packetsRemaining
    IN  send_can_message(m, TP_CM,
                         <<CLEAR_TO_SEND_MULTIPLEXOR, packetsThisSegment,
                           U8(session.processedPacketsThisSession + 1), 255, 255>> \o PgnBytes(session.pgn),
                         Lock(e.alive, session.destination), Lock(e.alive, session.source))

send_end_of_session_acknowledgement(m, e, session) ==
    send_can_message(m, TP_CM, LengthAnnouncement(END_OF_MESSAGE_ACKNOWLEDGE_MULTIPLEXOR, session),
                     Lock(e.alive, session.destination), Lock(e.alive, session.source))

-----------------------------------------------------------------------------
(* The session table *)

RemoveAt(seq, i) == [j \in 1..(Len(seq) - 1) |-> IF j < i THEN seq[j] ELSE seq[j + 1]]

\* std::find / std::find_if: the first of the matching indexes, 0 for end()
FirstIndex(matching) ==
    IF matching # {}
    THEN CHOOSE i \in matching : \A j \in matching : i <= j
    ELSE 0

SessionMatches(al, session, source, destination) ==
    /\ Lock(al, session.source) = source
    /\ Lock(al, session.destination) = destination

has_session(m, e, source, destination) ==
    \E i \in 1..Len(m.s) : SessionMatches(e.alive, m.s[i], source, destination)

\* get_session returns &*std::find_if(...).  A hit is the address of that element.
\* Without a hit the end() iterator is dereferenced: with no storage allocated the
\* address is the null pointer, otherwise it is the address of the slot behind the
\* last element, whose contents (e.ub: a stale session, or a trap) the build decides.
get_session(m, e, source, destination) ==
    LET i == FirstIndex({k \in 1..Len(m.s) : SessionMatches(e.alive, m.s[k], source, destination)})
    IN  IF i # 0 THEN [kind |-> "elem", i |-> i]
        ELSE IF ~ m.alloc THEN [kind |-> "null"]
        ELSE IF e.ub.trap THEN [kind |-> "trap"]
        ELSE [kind |-> "dangling", g |-> e.ub.g]

Deref(m, sp) == IF sp.kind = "elem" THEN m.s[sp.i] ELSE sp.g

\* a write through the session pointer; behind the end of the vector it changes no element
Store(m, sp, session) == IF sp.kind = "elem" THEN [m EXCEPT !.s[sp.i] = session] ELSE m

Crash(m) == [m EXCEPT !.crashed = TRUE]

push_back(m, session) == [m EXCEPT !.s = Append(@, session), !.alloc = TRUE]

close_session(m, e, session, successful) ==
    LET m1 == IF /\ session.sessionCompleteCallback
                 /\ session.dir = "Transmit"
                 /\ Lock(e.alive, session.source) # NULL
              THEN [m EXCEPT !.cbs = Append(@, [pgn |-> session.pgn,
                                                 dataLength |-> get_message_data_length(session),
                                                 source |-> session.source,
                                                 destination |-> Lock(e.alive, session.destination),
                                                 successful |-> successful])]
              ELSE m
        sessionLocation == FirstIndex({k \in 1..Len(m1.s) : operator_eq(e.alive, m1.s[k], session)})
    IN  IF sessionLocation # 0
        THEN [m1 EXCEPT !.s = RemoveAt(@, sessionLocation)]
        ELSE m1

abort_session(m, e, session, reason) ==
    LET myControlFunction ==
            IF session.dir = "Transmit"
            THEN get_internal_control_function(e, Lock(e.alive, session.source))
            ELSE get_internal_control_function(e, Lock(e.alive, session.destination))
        partnerControlFunction ==
            IF session.dir = "Transmit"
            THEN Lock(e.alive, session.destination)
            ELSE Lock(e.alive, session.source)
        m1 == IF myControlFunction # NULL /\ partnerControlFunction # NULL
              THEN send_abort(m, myControlFunction, partnerControlFunction, session.pgn, reason)
              ELSE m
    IN  close_session(m1, e, session, FALSE)

-----------------------------------------------------------------------------
(* Handlers of received connection management frames *)

process_broadcast_announce_message(m, e, source, pgn, totalMessageSize, totalNumberOfPackets) ==
    IF Len(m.s) >= e.cfg.maxSessions
    THEN m
    ELSE LET sp == get_session(m, e, source, NULL)
             m1 == IF sp.kind = "null" THEN m
                   ELSE IF sp.kind = "trap" THEN Crash(m)
                   ELSE close_session(m, e, Deref(m, sp), FALSE)
             session == [NewSession("Receive", pgn, source, NULL, DataVectorReserved(totalMessageSize))
                            EXCEPT !.packetCount = totalNumberOfPackets,
                                   !.announcedPackets = totalNumberOfPackets]
         IN  IF m1.crashed THEN m1
             ELSE push_back(m1, set_state(session, "RxDataSession", e))

\* process_request_to_send admitting the session whatever the size of the table
process_request_to_send_uncapped(m, e, source, destination, pgn, totalMessageSize, totalNumberOfPackets, clearToSendPacketMax) ==
    IF FALSE
    THEN send_abort(m, destination, source, pgn, AlreadyInCMSession)
    ELSE LET sp == get_session(m, e, source, destination)
             m1 == IF sp.kind = "null" THEN m
                   ELSE IF sp.kind = "trap" THEN Crash(m)
                   ELSE IF Deref(m, sp).pgn # pgn
                        THEN abort_session(m, e, Deref(m, sp), AlreadyInCMSession)
                        ELSE close_session(m, e, Deref(m, sp), FALSE)
             session == [NewSession("Receive", pgn, source, destination, DataVectorReserved(totalMessageSize))
                            EXCEPT !.packetCount = totalNumberOfPackets,
                                   !.announcedPackets = totalNumberOfPackets,
                                   !.clearToSendPacketMax = clearToSendPacketMax]
         IN  IF m1.crashed THEN m1
             ELSE push_back(m1, set_state(session, "ClearToSend", e))

process_request_to_send(m, e, source, destination, pgn, totalMessageSize, totalNumberOfPackets, clearToSendPacketMax) ==
    IF Len(m.s) >= e.cfg.maxSessions
    THEN send_abort(m, destination, source, pgn, AlreadyInCMSession)
    ELSE LET sp == get_session(m, e, source, destination)
             m1 == IF sp.kind = "null" THEN m
                   ELSE IF sp.kind = "trap" THEN Crash(m)
                   ELSE IF Deref(m, sp).pgn # pgn
                        THEN abort_session(m, e, Deref(m, sp), AlreadyInCMSession)
                        ELSE close_session(m, e, Deref(m, sp), FALSE)
             session == [NewSession("Receive", pgn, source, destination, DataVectorReserved(totalMessageSize))
                            EXCEPT !.packetCount = totalNumberOfPackets,
                                   !.announcedPackets = totalNumberOfPackets,
                                   !.clearToSendPacketMax = clearToSendPacketMax]
         IN  IF m1.crashed THEN m1
             ELSE push_back(m1, set_state(session, "ClearToSend", e))

process_clear_to_send(m, e, source, destination, pgn, packetsToBeSent, nextPacketNumber) ==
    LET sp == get_session(m, e, source, destination)
    IN  IF sp.kind = "null"
        THEN send_abort(m, destination, source, pgn, AnyOtherError)
        ELSE IF sp.kind = "trap" THEN Crash(m)
        ELSE LET session == Deref(m, sp)
             IN  IF session.pgn # pgn
                 THEN send_abort(abort_session(m, e, session, AnyOtherError),
                                 destination, source, pgn, AnyOtherError)
                 ELSE IF nextPacketNumber # session.lastPacketNumber + 1
                 THEN abort_session(m, e, session, BadSequenceNumber)
                 ELSE IF session.state # "WaitForClearToSend"
                 THEN abort_session(m, e, session, ClearToSendReceivedWhileTransferInProgress)
                 ELSE LET s1 == [session EXCEPT !.packetCount = packetsToBeSent,
                                                !.timestamp_ms = e.now]
                          s2 == IF packetsToBeSent # 0
                                THEN [s1 EXCEPT !.lastPacketNumber = 0, !.state = "TxDataSession"]
                                ELSE s1
                      IN  Store(m, sp, s2)

process_end_of_session_acknowledgement(m, e, source, destination, pgn) ==
    LET sp == get_session(m, e, source, destination)
    IN  IF sp.kind = "null"
        THEN send_abort(m, destination, source, pgn, AnyOtherError)
        ELSE IF sp.kind = "trap" THEN Crash(m)
        ELSE LET session == Deref(m, sp)
             IN  IF session.state = "WaitForEndOfMessageAcknowledge"
                 THEN close_session(Store(m, sp, [session EXCEPT !.state = "None"]), e,
                                    [session EXCEPT !.state = "None"], TRUE)
                 ELSE m

\* one of the two lookups of process_abort
AbortLookup(m, e, source, destination, pgn) ==
    LET sp == get_session(m, e, source, destination)
    IN  IF sp.kind = "null" THEN m
        ELSE IF sp.kind = "trap" THEN Crash(m)
        ELSE IF Deref(m, sp).pgn = pgn
             THEN close_session(m, e, Deref(m, sp), FALSE)
             ELSE m

process_abort(m, e, source, destination, pgn, reason) ==
    LET m1 == AbortLookup(m, e, source, destination, pgn)
    IN  IF m1.crashed THEN m1 ELSE AbortLookup(m1, e, destination, source, pgn)

\* CANMessage::get_uint8_at / get_uint16_at / get_uint24_at (little endian)
get_uint8_at(message, index) == message.data[index + 1]
get_uint16_at(message, index) == message.data[index + 1] + 256 * message.data[index + 2]
get_uint24_at(message, index) ==
    message.data[index + 1] + 256 * message.data[index + 2] + 65536 * message.data[index + 3]

is_destination_global(message) == message.dst = NULL

process_connection_management_message(m, e, message) ==
    LET pgn == get_uint24_at(message, 5)
        mux == get_uint8_at(message, 0)
    IN  IF mux = BROADCAST_ANNOUNCE_MESSAGE_MULTIPLEXOR
        THEN IF is_destination_global(message)
             THEN process_broadcast_announce_message(m, e, message.src, pgn,
                                                     get_uint16_at(message, 1), get_uint8_at(message, 3))
             ELSE m
        ELSE IF mux = REQUEST_TO_SEND_MULTIPLEXOR
        THEN IF is_destination_global(message) THEN m
             ELSE process_request_to_send(m, e, message.src, message.dst, pgn,
                                          get_uint16_at(message, 1), get_uint8_at(message, 3),
                                          get_uint8_at(message, 4))
        ELSE IF mux = CLEAR_TO_SEND_MULTIPLEXOR
        THEN IF is_destination_global(message) THEN m
             ELSE process_clear_to_send(m, e, message.src, message.dst, pgn,
                                        get_uint8_at(message, 1), get_uint8_at(message, 2))
        ELSE IF mux = END_OF_MESSAGE_ACKNOWLEDGE_MULTIPLEXOR
        THEN IF is_destination_global(message) THEN m
             ELSE process_end_of_session_acknowledgement(m, e, message.src, message.dst, pgn)
        ELSE IF mux = CONNECTION_ABORT_MULTIPLEXOR
        THEN IF is_destination_global(message) THEN m
             ELSE process_abort(m, e, message.src, message.dst, pgn, get_uint8_at(message, 1))
        ELSE m

-----------------------------------------------------------------------------
(* Received data transfer frames *)

\* CANTransportMessage::construct_message reads the address through source.lock()
\* and, for a destination specific message, through destination.lock(): with an
\* expired control function that is a read through a null pointer
construct_message_traps(e, session) ==
    \/ Lock(e.alive, session.source) = NULL
    \/ (~ session.global_destination /\ Lock(e.alive, session.destination) = NULL)

construct_message(e, session) ==
    [pgn |-> session.pgn, src |-> Lock(e.alive, session.source),
     dst |-> Lock(e.alive, session.destination), data |-> data_contents(session.data)]

\* process_any_control_function_pgn_callbacks and protocol_message_callback; the
\* read through a null pointer traps or yields some address (e.ub)
Deliver(m, e, session) ==
    IF construct_message_traps(e, session) /\ e.ub.trap THEN Crash(m)
    ELSE [m EXCEPT !.rx = @ \o << [via |-> "any_control_function", msg |-> construct_message(e, session)],
                                  [via |-> "protocol", msg |-> construct_message(e, session)] >>]

\* the copy loop of process_data_transfer_message
CopyFrameBytes(session, message) ==
    LET first == PROTOCOL_BYTES_PER_FRAME * session.lastPacketNumber
        len == get_message_data_length(session)
    IN  IF session.data.kind = "view" THEN session.data
        ELSE [session.data EXCEPT !.bytes =
                 [k \in 1..Len(session.data.bytes) |->
                     IF (k - 1) >= first /\ (k - 1) < first + PROTOCOL_BYTES_PER_FRAME /\ (k - 1) < len
                     THEN get_uint8_at(message, 1 + ((k - 1) - first))
                     ELSE session.data.bytes[k]]]

process_data_transfer_message(m, e, message) ==
    LET source == message.src
        destination == IF is_destination_global(message) THEN NULL ELSE message.dst
        sp == get_session(m, e, source, destination)
    IN  IF sp.kind = "null" THEN m
        ELSE IF sp.kind = "trap" THEN Crash(m)
        ELSE LET session == Deref(m, sp)
                 seq == get_uint8_at(message, SEQUENCE_NUMBER_DATA_INDEX)
             IN  IF session.state # "RxDataSession"
                 THEN abort_session(m, e, session, UnexpectedDataTransferPacketReceived)
                 ELSE IF seq = session.lastPacketNumber
                 THEN abort_session(m, e, session, DuplicateSequenceNumber)
                 ELSE IF seq = session.lastPacketNumber + 1
                 THEN LET s1 == [session EXCEPT !.data = CopyFrameBytes(session, message),
                                                !.lastPacketNumber = U8(@ + 1),
                                                !.processedPacketsThisSession = U8(@ + 1),
                                                !.timestamp_ms = e.now]
                          m1 == Store(m, sp, s1)
                      IN  IF (s1.lastPacketNumber * PROTOCOL_BYTES_PER_FRAME) >= get_message_data_length(s1)
                          THEN LET m2 == IF ~ is_destination_global(message)
                                         THEN send_end_of_session_acknowledgement(m1, e, s1)
                                         ELSE m1
                                   m3 == Deliver(m2, e, s1)
                               IN  IF m3.crashed THEN m3 ELSE close_session(m3, e, s1, TRUE)
                          ELSE m1
                 ELSE abort_session(m, e, session, BadSequenceNumber)

\* has_valid_source_control_function / has_valid_destination_control_function
has_valid_source_control_function(e, message) == message.src \in e.alive
has_valid_destination_control_function(e, message) == message.dst \in e.alive

process_message(m, e, message) ==
    IF /\ has_valid_source_control_function(e, message)
       /\ (has_valid_destination_control_function(e, message) \/ is_destination_global(message))
    THEN IF message.pgn = TP_CM
         THEN IF CAN_DATA_LENGTH = Len(message.data)
              THEN process_connection_management_message(m, e, message)
              ELSE m
         ELSE IF message.pgn = TP_DT
         THEN IF PROTOCOL_BYTES_PER_FRAME = Len(message.data)
              THEN process_data_transfer_message(m, e, message)
              ELSE m
         ELSE m
    ELSE m

-----------------------------------------------------------------------------
(* Transmit requests *)

\* protocol_transmit_message: the return value
protocol_transmit_message_result(m, e, data, source, destination) ==
    IF data = NullData \/ data_size(data) <= CAN_DATA_LENGTH \/ data_size(data) > MAX_PROTOCOL_DATA_LENGTH
    THEN FALSE
    ELSE IF source = NULL \/ source \notin e.addressValid \/ has_session(m, e, source, destination)
    THEN FALSE
    ELSE TRUE

\* protocol_transmit_message: the effect on the manager
protocol_transmit_message(m, e, parameterGroupNumber, data, source, destination, sessionCompleteCallback) ==
    IF ~ protocol_transmit_message_result(m, e, data, source, destination)
    THEN m
    ELSE LET s0 == NewSession("Transmit", parameterGroupNumber, source, destination, data)
             count == U8(get_message_data_length(s0) \div PROTOCOL_BYTES_PER_FRAME)
             s1 == [s0 EXCEPT !.packetCount =
                                  IF (get_message_data_length(s0) % PROTOCOL_BYTES_PER_FRAME) # 0
                                  THEN U8(count + 1) ELSE count,
                              !.lastPacketNumber = 0,
                              !.processedPacketsThisSession = 0,
                              !.sessionCompleteCallback = sessionCompleteCallback]
             s2 == [s1 EXCEPT !.announcedPackets = s1.packetCount]
         IN  IF destination # NULL
             THEN push_back(m, set_state(s2, "RequestToSend", e))
             ELSE push_back(m, set_state(s2, "BroadcastAnnounce", e))

-----------------------------------------------------------------------------
(* update(): the periodic state machine step *)

\* DataTransferBuffer with the unused bytes of the last frame left at zero
DataTransferBuffer_zeroFilled(session) ==
    << U8(session.processedPacketsThisSession + 1) >> \o
    [j \in 1..PROTOCOL_BYTES_PER_FRAME |->
        LET index == (j - 1) + (PROTOCOL_BYTES_PER_FRAME * session.processedPacketsThisSession)
        IN  IF index < get_message_data_length(session)
            THEN data_get_byte(session.data, index)
            ELSE 0]

\* the 8 byte buffer send_data_transfer_packets fills for one frame
DataTransferBuffer(session) ==
    << U8(session.processedPacketsThisSession + 1) >> \o
    [j \in 1..PROTOCOL_BYTES_PER_FRAME |->
        LET index == (j - 1) + (PROTOCOL_BYTES_PER_FRAME * session.processedPacketsThisSession)
        IN  IF index < get_message_data_length(session)
            THEN data_get_byte(session.data, index)
            ELSE 255]

\* the for loop of send_data_transfer_packets; sp addresses the session
RECURSIVE SendLoop(_, _, _, _)
SendLoop(m, e, sp, framesSentThisUpdate) ==
    LET session == Deref(m, sp)
        sender == Lock(e.alive, session.source)
    IN  IF ~ (session.lastPacketNumber < session.packetCount) THEN m
        ELSE IF ~ send_ok(m, sender) THEN m
        ELSE LET m1 == send_can_message(m, TP_DT, DataTransferBuffer(session), sender,
                                        Lock(e.alive, session.destination))
                 s1 == [session EXCEPT !.lastPacketNumber = U8(@ + 1),
                                       !.processedPacketsThisSession = U8(@ + 1),
                                       !.timestamp_ms = e.now,
                                       !.framesEmitted = @ + 1]
                 m2 == Store(m1, sp, s1)
             IN  IF s1.global_destination THEN m2
                 ELSE IF framesSentThisUpdate + 1 >= e.cfg.maxFramesPerUpdate THEN m2
                 ELSE SendLoop(m2, e, sp, framesSentThisUpdate + 1)

\* send_data_transfer_packets leaving a finished broadcast session in the table
send_data_transfer_packets_keepsSession(m, e, sp) ==
    LET m1 == SendLoop(m, e, sp, 0)
        session == Deref(m1, sp)
    IN  IF session.lastPacketNumber = session.packetCount
        THEN IF get_message_data_length(session) <=
                    (PROTOCOL_BYTES_PER_FRAME * session.processedPacketsThisSession)
             THEN Store(m1, sp, set_state(session, "WaitForEndOfMessageAcknowledge", e))
             ELSE Store(m1, sp, set_state(session, "WaitForClearToSend", e))
        ELSE m1

send_data_transfer_packets(m, e, sp) ==
    LET m1 == SendLoop(m, e, sp, 0)
        session == Deref(m1, sp)
    IN  IF session.lastPacketNumber = session.packetCount
        THEN IF get_message_data_length(session) <=
                    (PROTOCOL_BYTES_PER_FRAME * session.processedPacketsThisSession)
             THEN IF session.global_destination
                  THEN close_session(m1, e, session, TRUE)
                  ELSE Store(m1, sp, set_state(session, "WaitForEndOfMessageAcknowledge", e))
             ELSE Store(m1, sp, set_state(session, "WaitForClearToSend", e))
        ELSE m1

\* update_state_machine sending the next broadcast frame without waiting for the gap
update_state_machine_noBamGap(m, e, sp) ==
    LET session == Deref(m, sp)
    IN  CASE session.state = "None" -> m
          [] session.state = "ClearToSend" ->
                IF send_clear_to_send_ok(m, e, session)
                THEN Store(send_clear_to_send(m, e, session), sp, set_state(session, "RxDataSession", e))
                ELSE m
          [] session.state \in {"WaitForClearToSend", "WaitForEndOfMessageAcknowledge"} ->
                IF time_expired_ms(e, session.timestamp_ms, T2_T3_TIMEOUT_MS)
                THEN abort_session(m, e, session, Timeout)
                ELSE m
          [] session.state = "RequestToSend" ->
                IF send_request_to_send_ok(m, e, session)
                THEN Store(send_request_to_send(m, e, session), sp, set_state(session, "WaitForClearToSend", e))
                ELSE m
          [] session.state = "BroadcastAnnounce" ->
                IF send_broadcast_announce_message_ok(m, e, session)
                THEN Store(send_broadcast_announce_message(m, e, session), sp, set_state(session, "TxDataSession", e))
                ELSE m
          [] session.state = "TxDataSession" ->
                IF FALSE
                THEN m
                ELSE send_data_transfer_packets(m, e, sp)
          [] session.state = "RxDataSession" ->
                IF session.global_destination
                THEN IF time_expired_ms(e, session.timestamp_ms, T1_TIMEOUT_MS)
                     THEN close_session(m, e, session, FALSE)
                     ELSE m
                ELSE IF time_expired_ms(e, session.timestamp_ms, MESSAGE_TR_TIMEOUT_MS)
                     THEN abort_session(m, e, session, Timeout)
                     ELSE m

update_state_machine(m, e, sp) ==
    LET session == Deref(m, sp)
    IN  CASE session.state = "None" -> m
          [] session.state = "ClearToSend" ->
                IF send_clear_to_send_ok(m, e, session)
                THEN Store(send_clear_to_send(m, e, session), sp, set_state(session, "RxDataSession", e))
                ELSE m
          [] session.state \in {"WaitForClearToSend", "WaitForEndOfMessageAcknowledge"} ->
                IF time_expired_ms(e, session.timestamp_ms, T2_T3_TIMEOUT_MS)
                THEN abort_session(m, e, session, Timeout)
                ELSE m
          [] session.state = "RequestToSend" ->
                IF send_request_to_send_ok(m, e, session)
                THEN Store(send_request_to_send(m, e, session), sp, set_state(session, "WaitForClearToSend", e))
                ELSE m
          [] session.state = "BroadcastAnnounce" ->
                IF send_broadcast_announce_message_ok(m, e, session)
                THEN Store(send_broadcast_announce_message(m, e, session), sp, set_state(session, "TxDataSession", e))
                ELSE m
          [] session.state = "TxDataSession" ->
                IF session.global_destination /\ ~ time_expired_ms(e, session.timestamp_ms, e.cfg.minBamGap)
                THEN m
                ELSE send_data_transfer_packets(m, e, sp)
          [] session.state = "RxDataSession" ->
                IF session.global_destination
                THEN IF time_expired_ms(e, session.timestamp_ms, T1_TIMEOUT_MS)
                     THEN close_session(m, e, session, FALSE)
                     ELSE m
                ELSE IF time_expired_ms(e, session.timestamp_ms, MESSAGE_TR_TIMEOUT_MS)
                     THEN abort_session(m, e, session, Timeout)
                     ELSE m

\* The range-for of update(): begin and end are taken once, before the first
\* session is handled.  pos runs over the slots begin..end; a slot behind the
\* current end of the vector (sessions were erased during this pass) holds what
\* the erase left there (e.ub).
RECURSIVE UpdateLoop(_, _, _, _)
UpdateLoop(m, e, pos, end) ==
    IF pos > end \/ m.crashed THEN m
    ELSE LET sp == IF pos <= Len(m.s) THEN [kind |-> "elem", i |-> pos]
                   ELSE IF e.ub.trap THEN [kind |-> "trap"]
                   ELSE [kind |-> "dangling", g |-> e.ub.g]
         IN  IF sp.kind = "trap" THEN Crash(m)
             ELSE LET session == Deref(m, sp)
                      m1 == IF ~ can_continue(e.alive, session)
                            THEN abort_session(m, e, session, AnyOtherError)
                            ELSE update_state_machine(m, e, sp)
                  IN  UpdateLoop(m1, e, pos + 1, end)

update(m, e) == UpdateLoop(m, e, 1, Len(m.s))

-----------------------------------------------------------------------------
(* What a read behind the end of the session vector can find *)

\* zero filled storage
ZeroImage ==
    [NewSession("Transmit", 0, NULL, NULL, DataVectorReserved(0)) EXCEPT !.global_destination = FALSE]

\* the image of a session that was destroyed at that place
StaleImage(source, destination, pgn, state) ==
    [NewSession("Receive", pgn, source, destination, DataVectorReserved(0)) EXCEPT !.state = state]

StaleSessions ==
    {ZeroImage, StaleImage(NULL, NULL, 65280, "RxDataSession"),
     StaleImage("E1", "I1", 65280, "WaitForClearToSend")}

UBOutcomes == {[trap |-> TRUE, g |-> ZeroImage]} \cup {[trap |-> FALSE, g |-> g] : g \in StaleSessions}

NoUB == [trap |-> TRUE, g |-> ZeroImage]

-----------------------------------------------------------------------------
(* VirtualTerminalServer: data *)

\* CANLibParameterGroupNumber
ECUtoVirtualTerminal == 58880    \* 0xE600
VirtualTerminalToECU == 59136    \* 0xE700
Acknowledge == 59392             \* 0xE800

NULL_OBJECT_ID == 65535
NULL_CAN_ADDRESS == 254

\* AcknowledgementType::Negative
NegativeAcknowledgement == 1

\* enum class Function: the multiplexor in byte 0 of a frame
Function ==
    [ObjectPoolTransferMessage |-> 17, EndOfObjectPoolMessage |-> 18,
     HideShowObjectCommand |-> 160, EnableDisableObjectCommand |-> 161,
     ChangeChildLocationCommand |-> 165, ChangeActiveMaskCommand |-> 166,
     ChangeSoftKeyMaskCommand |-> 167, ChangeNumericValueCommand |-> 168,
     ChangeFillAttributesCommand |-> 170, ChangeSizeCommand |-> 171,
     ChangeFontAttributesCommand |-> 172, ChangeAttributeCommand |-> 175,
     ChangeListItemCommand |-> 178, ChangeStringValueCommand |-> 179,
     ChangeChildPositionCommand |-> 180,
     GetMemoryMessage |-> 192, GetNumberOfSoftKeysMessage |-> 193,
     GetHardwareMessage |-> 194, GetTextFontDataMessage |-> 195,
     GetSupportedWidecharsMessage |-> 198, LoadVersionCommand |-> 208,
     StoreVersionCommand |-> 209, GetVersionsMessage |-> 223,
     GetSupportedObjectsMessage |-> 254, VTStatusMessage |-> 254,
     WorkingSetMaintenanceMessage |-> 255]

\* the error bit enumerations of the commands: bit positions in the error
\* field of a response
ErrorBit ==
    [InvalidObjectID |-> 0, InvalidValue |-> 1, AnyOtherError |-> 4,
     InvalidEnableDisableCommandValue |-> 1,
     ParentObjectDoesntExistOrIsNotAParentOfSpecifiedObject |-> 0,
     TargetObjectDoesNotExistOrIsNotApplicable |-> 1,
     InvalidWorkingSetObjectID |-> 0, InvalidMaskObjectID |-> 1,
     StringInvalidObjectID |-> 1, StringAnyOtherError |-> 3,
     InvalidType |-> 1, InvalidPatternObjectID |-> 2,
     InvalidAttributeID |-> 1,
     InvalidNewListItemObjectID |-> 2, InvalidSize |-> 2,
     InvalidDataOrAlarmMaskObjectID |-> 0, InvalidSoftKeyMaskObjectID |-> 1]

\* 1 << bit, as a std::uint8_t
Bit(bit) == (2 ^ bit) % 256

LowByte(value) == value % 256
HighByte(value) == (value \div 256) % 256

\* static_cast to std::int8_t and std::int16_t (two's complement)
Int8(value) == ((value + 128) % 256) - 128
Int16(value) == ((value + 32768) % 65536) - 32768

\* the clients of the terminal and the addresses they claimed
Clients == {"E1", "E2"}
get_address == [I1 |-> 38, E1 |-> 128, E2 |-> 129]

\* VTObject::ChildObjectData
ChildObjectData(objectId, x, y) == [id |-> objectId, xLocation |-> x, yLocation |-> y]

\* a VTObject of some type after construction; the members of the derived
\* classes that the commands write are fields of the same record
VTObject(type, objectID, children) ==
    [type |-> type, objectID |-> objectID, width |-> 0, height |-> 0,
     backgroundColor |-> 0, children |-> children, value |-> 0, stringValue |-> <<>>,
     hidden |-> FALSE, enabled |-> FALSE, activeMask |-> NULL_OBJECT_ID,
     softKeyMask |-> NULL_OBJECT_ID, fillPattern |-> NULL_OBJECT_ID, fillType |-> 0,
     fontSize |-> 0, fontType |-> 0, fontStyle |-> 0,
     externalReferenceNAMEID |-> NULL_OBJECT_ID, externalObjectID |-> NULL_OBJECT_ID,
     attributes |-> <<>>]

\* VirtualTerminalServerManagedWorkingSet after construction for a client
ManagedWorkingSet(cf) ==
    [cf |-> cf, iopRawData |-> <<>>, state |-> "Idle", objects |-> <<>>,
     faultingObjectID |-> NULL_OBJECT_ID, workingSetMaintenanceMessageTimestamp_ms |-> 0]

\* the server after construction, with nothing sent and no event fired;
\* rxCallbacks are the entries of the network manager's list of callbacks for
\* any control function that belong to this server
ServerIdle ==
    [managedWorkingSetList |-> <<>>, statusMessageTimestamp_ms |-> 0,
     activeWorkingSetMasterAddress |-> NULL_CAN_ADDRESS,
     activeWorkingSetDataMaskObjectID |-> NULL_OBJECT_ID,
     serverInternalControlFunction |-> "I1", crashed |-> FALSE,
     initialized |-> FALSE, rxCallbacks |-> <<>>,
     out |-> <<>>, events |-> <<>>]

-----------------------------------------------------------------------------
(* VirtualTerminalServer: responses and client attach *)

\* Every function of the server is an operator on a server context record sv:
\* the members of the server, the frames sent (out), the events fired
\* (events) and the number of frames the network still accepts (budget).
\* e holds what a call reads from its surroundings: the clock and the
\* answers of the application's load_version and save_version.

\* EventDispatcher::call of one of the server's dispatchers
call(sv, dispatcher, cf, arguments) ==
    [sv EXCEPT !.events = Append(@, [dispatcher |-> dispatcher, cf |-> cf, arguments |-> arguments])]

send_acknowledgement(sv, type, parameterGroupNumber, source, destination) ==
    IF source # NULL /\ destination # NULL
    THEN send_can_message(sv, Acknowledge,
                          <<type, 255, 255, 255, get_address[destination]>> \o PgnBytes(parameterGroupNumber),
                          source, NULL)
    ELSE sv

\* the buffers of the send_change_*_response, send_hide_show_object_response
\* and send_enable_disable_object_response functions
ResponseBuffer(function, objectID, otherID, errorBitfield, value) ==
    CASE function \in {Function.ChangeActiveMaskCommand, Function.ChangeFillAttributesCommand,
                       Function.ChangeFontAttributesCommand, Function.ChangeSizeCommand}
             -> <<function, LowByte(objectID), HighByte(objectID), errorBitfield, 255, 255, 255, 255>>
      [] function = Function.ChangeAttributeCommand
             -> <<function, LowByte(objectID), HighByte(objectID), value, errorBitfield, 255, 255, 255>>
      [] function \in {Function.ChangeChildLocationCommand, Function.ChangeChildPositionCommand,
                       Function.ChangeSoftKeyMaskCommand}
             -> <<function, LowByte(objectID), HighByte(objectID), LowByte(otherID), HighByte(otherID),
                  errorBitfield, 255, 255>>
      [] function = Function.ChangeListItemCommand
             -> <<function, LowByte(objectID), HighByte(objectID), value, LowByte(otherID),
                  HighByte(otherID), errorBitfield, 255>>
      [] function = Function.ChangeNumericValueCommand
             -> <<function, LowByte(objectID), HighByte(objectID), errorBitfield,
                  value % 256, (value \div 256) % 256, (value \div 65536) % 256,
                  (value \div 16777216) % 256>>
      [] function = Function.ChangeStringValueCommand
             -> <<function, 255, 255, LowByte(objectID), HighByte(objectID), errorBitfield, 255, 255>>
      [] function \in {Function.HideShowObjectCommand, Function.EnableDisableObjectCommand}
             -> <<function, LowByte(objectID), HighByte(objectID), value, errorBitfield, 255, 255, 255>>

\* send_change_*_response and its relatives: nothing is sent to a null
\* destination (send_hide_show_object_response leaves that to the network)
send_response(sv, function, objectID, otherID, errorBitfield, value, destination) ==
    IF destination # NULL
    THEN send_can_message(sv, VirtualTerminalToECU,
                          ResponseBuffer(function, objectID, otherID, errorBitfield, value),
                          sv.serverInternalControlFunction, destination)
    ELSE sv

send_end_of_object_pool_response(sv, success, parentIDOfFaultingObject, faultingObjectID, errorCodes, destination) ==
    send_can_message(sv, VirtualTerminalToECU,
                     <<Function.EndOfObjectPoolMessage, IF success THEN 0 ELSE 1,
                       LowByte(parentIDOfFaultingObject), HighByte(parentIDOfFaultingObject),
                       LowByte(faultingObjectID), HighByte(faultingObjectID), errorCodes, 255>>,
                     sv.serverInternalControlFunction, destination)

send_status_message(sv) ==
    send_can_message(sv, VirtualTerminalToECU,
                     <<Function.VTStatusMessage, sv.activeWorkingSetMasterAddress,
                       LowByte(sv.activeWorkingSetDataMaskObjectID),
                       HighByte(sv.activeWorkingSetDataMaskObjectID),
                       LowByte(NULL_OBJECT_ID), HighByte(NULL_OBJECT_ID), 0, 0>>,
                     sv.serverInternalControlFunction, NULL)

\* check_if_source_is_managed: the value returned
check_if_source_is_managed_result(sv, message) ==
    \E i \in 1..Len(sv.managedWorkingSetList) : sv.managedWorkingSetList[i].cf = message.src

\* check_if_source_is_managed without the test of the init bit
check_if_source_is_managed_anyMaintenance(sv, e, message) ==
    IF check_if_source_is_managed_result(sv, message)
    THEN sv
    ELSE IF get_uint8_at(message, 0) = Function.WorkingSetMaintenanceMessage
         THEN [sv EXCEPT !.managedWorkingSetList =
                  Append(@, [ManagedWorkingSet(message.src)
                                EXCEPT !.workingSetMaintenanceMessageTimestamp_ms = e.now])]
         ELSE send_acknowledgement(sv, NegativeAcknowledgement, ECUtoVirtualTerminal,
                                   sv.serverInternalControlFunction, message.src)

\* check_if_source_is_managed: what it does to the server
check_if_source_is_managed(sv, e, message) ==
    IF check_if_source_is_managed_result(sv, message)
    THEN sv
    ELSE IF /\ get_uint8_at(message, 0) = Function.WorkingSetMaintenanceMessage
            /\ get_uint8_at(message, 1) % 2 = 1
         THEN [sv EXCEPT !.managedWorkingSetList =
                  Append(@, [ManagedWorkingSet(message.src)
                                EXCEPT !.workingSetMaintenanceMessageTimestamp_ms = e.now])]
         ELSE send_acknowledgement(sv, NegativeAcknowledgement, ECUtoVirtualTerminal,
                                   sv.serverInternalControlFunction, message.src)

-----------------------------------------------------------------------------
(* VirtualTerminalServer: the managed working set and its objects *)

\* what get_object_by_id returns for an ID that is not in the pool
NullObject == VTObject("nullptr", NULL_OBJECT_ID, <<>>)

\* VirtualTerminalServerManagedWorkingSet
get_any_object_pools(ws) == ws.iopRawData # <<>>
add_iop_raw_data(ws, data) == [ws EXCEPT !.iopRawData = Append(@, data)]
start_parsing_thread(ws) == [ws EXCEPT !.state = "Running"]
join_parsing_thread(ws) == [ws EXCEPT !.state = "Idle"]
get_object_by_id(ws, objectID) ==
    IF objectID \in DOMAIN ws.objects THEN ws.objects[objectID] ELSE NullObject

\* the server context with object objectID of working set i replaced
SetObject(sv, i, objectID, object) ==
    [sv EXCEPT !.managedWorkingSetList[i].objects[objectID] = object]

\* the width in bits of the parameter of set_value of each numeric type
ValueWidth ==
    [InputBoolean |-> 8, InputNumber |-> 32, InputList |-> 8, OutputNumber |-> 32,
     OutputList |-> 8, OutputMeter |-> 8, OutputLinearBarGraph |-> 16,
     OutputArchedBarGraph |-> 16, NumberVariable |-> 32]

\* set_value of the numeric types: the std::uint32_t of the command is
\* converted to the parameter type (values stay below 2^31 in this model)
set_value(object, value) ==
    [object EXCEPT !.value = IF ValueWidth[object.type] = 32 THEN value
                             ELSE value % (2 ^ ValueWidth[object.type])]

get_value(object) == object.value

\* VTObject::offset_all_children_x_with_id: retVal is never assigned in the loop
offset_all_children_x_with_id(object, childObjectID, xOffset, yOffset) ==
    [object |-> [object EXCEPT !.children =
                    [k \in 1..Len(@) |->
                        IF @[k].id = childObjectID
                        THEN [@[k] EXCEPT !.xLocation = Int16(@ + xOffset),
                                          !.yLocation = Int16(@ + yOffset)]
                        ELSE @[k]]],
     retVal |-> FALSE]

\* the types of the children that the get_is_valid of a parent type accepts
PermittedChildTypes ==
    [WorkingSet |-> {"OutputList", "Container", "OutputString", "OutputNumber", "OutputLine",
                     "OutputRectangle", "OutputEllipse", "OutputPolygon", "OutputMeter",
                     "OutputLinearBarGraph", "OutputArchedBarGraph", "GraphicsContext",
                     "PictureGraphic", "ObjectPointer"},
     SoftKeyMask |-> {"ObjectPointer", "ExternalObjectPointer", "Key"}]

\* WorkingSet::get_is_valid and SoftKeyMask::get_is_valid: a child that
\* get_object_by_id does not find is passed over
get_is_valid(ws, object) ==
    LET anyWrongChildType ==
            \E k \in 1..Len(object.children) :
                LET childObject == get_object_by_id(ws, object.children[k].id)
                IN  /\ childObject # NullObject
                    /\ childObject.type \notin PermittedChildTypes[object.type]
    IN  ~ anyWrongChildType /\ NULL_OBJECT_ID # object.objectID

-----------------------------------------------------------------------------
(* VirtualTerminalServer::process_rx_message: the commands *)

\* In each command cf is sv.managedWorkingSetList[i], the managed working set
\* of the sender.

get_uint32_at(message, index) ==
    get_uint16_at(message, index) + 65536 * get_uint16_at(message, index + 2)

ChangeNumericValueCommand(sv, e, i, message) ==
    LET cf == sv.managedWorkingSetList[i]
        value == get_uint32_at(message, 4)
        objectId == get_uint16_at(message, 1)
        lTargetObject == get_object_by_id(cf, objectId)
        respond(s, errorBitfield) ==
            send_response(s, Function.ChangeNumericValueCommand, objectId, 0, errorBitfield, value, cf.cf)
        changed(object) ==
            respond(call(SetObject(sv, i, objectId, object), "onChangeNumericValue", cf.cf,
                         <<objectId, value>>), 0)
    IN  IF lTargetObject # NullObject
        THEN CASE lTargetObject.type \in DOMAIN ValueWidth -> changed(set_value(lTargetObject, value))
               [] lTargetObject.type = "ObjectPointer" ->
                      changed([lTargetObject EXCEPT !.children =
                                  Append(IF @ = <<>> THEN @ ELSE SubSeq(@, 1, Len(@) - 1),
                                         ChildObjectData(value % 65536, 0, 0))])
               [] lTargetObject.type = "ExternalObjectPointer" ->
                      respond(SetObject(sv, i, objectId,
                                        [lTargetObject EXCEPT
                                            !.externalReferenceNAMEID = get_uint16_at(message, 4),
                                            !.externalObjectID = get_uint16_at(message, 6)]), 0)
               [] lTargetObject.type = "Animation" -> respond(sv, Bit(ErrorBit.AnyOtherError))
               [] OTHER -> respond(sv, Bit(ErrorBit.InvalidObjectID))
        ELSE respond(sv, Bit(ErrorBit.InvalidObjectID))

HideShowObjectCommand(sv, e, i, message) ==
    LET cf == sv.managedWorkingSetList[i]
        objectId == get_uint16_at(message, 1)
        lTargetObject == get_object_by_id(cf, objectId)
        shown == IF 0 # get_uint8_at(message, 3) THEN 1 ELSE 0
        respond(s, errorBitfield) ==
            send_response(s, Function.HideShowObjectCommand, objectId, 0, errorBitfield, shown, cf.cf)
    IN  IF lTargetObject # NullObject /\ lTargetObject.type = "Container"
        THEN call(respond(SetObject(sv, i, objectId,
                                    [lTargetObject EXCEPT !.hidden = (0 = get_uint8_at(message, 3))]), 0),
                  "onHideShowObject", cf.cf, <<objectId, 0 = get_uint8_at(message, 3)>>)
        ELSE respond(sv, Bit(ErrorBit.InvalidObjectID))

\* InputBoolean, InputList, InputString, InputNumber and Button each keep the
\* flag in a member or option bit of their own: field enabled
EnableDisableObjectCommand(sv, e, i, message) ==
    LET cf == sv.managedWorkingSetList[i]
        objectId == get_uint16_at(message, 1)
        lTargetObject == get_object_by_id(cf, objectId)
        enabled == 0 # get_uint8_at(message, 3)
        respond(s, errorBitfield) ==
            send_response(s, Function.EnableDisableObjectCommand, objectId, 0, errorBitfield,
                          IF enabled THEN 1 ELSE 0, cf.cf)
    IN  IF lTargetObject # NullObject
        THEN IF get_uint8_at(message, 3) <= 1
             THEN IF lTargetObject.type \in {"InputBoolean", "InputList", "InputString", "InputNumber", "Button"}
                  THEN call(respond(SetObject(sv, i, objectId, [lTargetObject EXCEPT !.enabled = enabled]), 0),
                            "onEnableDisableObject", cf.cf, <<objectId, enabled>>)
                  ELSE respond(sv, Bit(ErrorBit.InvalidObjectID))
             ELSE respond(sv, Bit(ErrorBit.InvalidEnableDisableCommandValue))
        ELSE respond(sv, Bit(ErrorBit.InvalidObjectID))

ChangeChildLocationCommand(sv, e, i, message) ==
    LET cf == sv.managedWorkingSetList[i]
        parentObjectId == get_uint16_at(message, 1)
        objectID == get_uint16_at(message, 3)
        parentObject == get_object_by_id(cf, parentObjectId)
        lTargetObject == get_object_by_id(cf, objectID)
        xRelativeChange == Int8(get_uint8_at(message, 5) - 127)
        yRelativeChange == Int8(get_uint8_at(message, 6) - 127)
        offset == offset_all_children_x_with_id(parentObject, objectID, xRelativeChange, yRelativeChange)
        respond(s, errorBitfield) ==
            send_response(s, Function.ChangeChildLocationCommand, parentObjectId, objectID,
                          errorBitfield, 0, cf.cf)
    IN  IF parentObject # NullObject
        THEN IF lTargetObject # NullObject
             THEN LET moved == call(SetObject(sv, i, parentObjectId, offset.object),
                                    "onChangeChildLocation", cf.cf,
                                    <<parentObjectId, objectID, xRelativeChange, yRelativeChange>>)
                  IN  IF offset.retVal
                      THEN respond(moved, 0)
                      ELSE respond(moved, Bit(ErrorBit.TargetObjectDoesNotExistOrIsNotApplicable))
             ELSE respond(sv, Bit(ErrorBit.TargetObjectDoesNotExistOrIsNotApplicable))
        ELSE respond(sv, Bit(ErrorBit.ParentObjectDoesntExistOrIsNotAParentOfSpecifiedObject))

\* the static_pointer_cast to WorkingSet is not preceded by a test of the type:
\* for another type the write through it is undefined, the process traps or
\* the write lands (e.trap)
ChangeActiveMaskCommand(sv, e, i, message) ==
    LET cf == sv.managedWorkingSetList[i]
        workingSetObjectId == get_uint16_at(message, 1)
        newActiveMaskObjectId == get_uint16_at(message, 3)
        workingSetObject == get_object_by_id(cf, workingSetObjectId)
        respond(s, errorBitfield) ==
            send_response(s, Function.ChangeActiveMaskCommand, newActiveMaskObjectId, 0,
                          errorBitfield, 0, cf.cf)
    IN  IF workingSetObject # NullObject
        THEN IF get_object_by_id(cf, newActiveMaskObjectId) # NullObject
             THEN LET written == IF workingSetObject.type = "WorkingSet" \/ ~ e.trap
                                     THEN SetObject(sv, i, workingSetObjectId,
                                                    [workingSetObject EXCEPT !.activeMask = newActiveMaskObjectId])
                                     ELSE [sv EXCEPT !.crashed = TRUE]
                  IN  IF written.crashed THEN written
                      ELSE call(respond(written, 0), "onChangeActiveMask", cf.cf,
                                <<workingSetObjectId, newActiveMaskObjectId>>)
             ELSE respond(sv, Bit(ErrorBit.InvalidMaskObjectID))
        ELSE respond(sv, Bit(ErrorBit.InvalidWorkingSetObjectID))

\* ChangeStringValueCommand without the switch over the type of the target
ChangeStringValueCommand_anyType(sv, e, i, message) ==
    LET cf == sv.managedWorkingSetList[i]
        objectIdToChange == get_uint16_at(message, 1)
        numberOfBytesInString == get_uint16_at(message, 3)
        stringObject == get_object_by_id(cf, objectIdToChange)
        newStringValue == SubSeq(message.data, 6, 5 + numberOfBytesInString)
        respond(s, errorBitfield) ==
            send_response(s, Function.ChangeStringValueCommand, objectIdToChange, 0,
                          errorBitfield, 0, message.src)
    IN  IF Len(message.data) >= numberOfBytesInString + 5
        THEN IF stringObject # NullObject
             THEN call(respond(SetObject(sv, i, objectIdToChange,
                                         [stringObject EXCEPT !.stringValue = newStringValue]), 0),
                       "onRepaint", cf.cf, <<>>)
             ELSE respond(sv, Bit(ErrorBit.StringInvalidObjectID))
        ELSE respond(sv, Bit(ErrorBit.StringAnyOtherError))

ChangeStringValueCommand(sv, e, i, message) ==
    LET cf == sv.managedWorkingSetList[i]
        objectIdToChange == get_uint16_at(message, 1)
        numberOfBytesInString == get_uint16_at(message, 3)
        stringObject == get_object_by_id(cf, objectIdToChange)
        newStringValue == SubSeq(message.data, 6, 5 + numberOfBytesInString)
        respond(s, errorBitfield) ==
            send_response(s, Function.ChangeStringValueCommand, objectIdToChange, 0,
                          errorBitfield, 0, message.src)
    IN  IF Len(message.data) >= numberOfBytesInString + 5
        THEN IF stringObject # NullObject
             THEN IF stringObject.type \in {"StringVariable", "OutputString", "InputString"}
                  THEN call(respond(SetObject(sv, i, objectIdToChange,
                                              [stringObject EXCEPT !.stringValue = newStringValue]), 0),
                            "onRepaint", cf.cf, <<>>)
                  ELSE respond(sv, Bit(ErrorBit.StringInvalidObjectID))
             ELSE respond(sv, Bit(ErrorBit.StringInvalidObjectID))
        ELSE respond(sv, Bit(ErrorBit.StringAnyOtherError))

ChangeFillAttributesCommand(sv, e, i, message) ==
    LET cf == sv.managedWorkingSetList[i]
        objectIdToChange == get_uint16_at(message, 1)
        fillPatternID == get_uint16_at(message, 5)
        object == get_object_by_id(cf, objectIdToChange)
        fillPatternObject == get_object_by_id(cf, fillPatternID)
        respond(s, errorBitfield) ==
            send_response(s, Function.ChangeFillAttributesCommand, objectIdToChange, 0,
                          errorBitfield, 0, message.src)
    IN  IF object # NullObject /\ object.type = "FillAttributes"
        THEN IF \/ fillPatternObject # NullObject /\ fillPatternObject.type = "PictureGraphic"
                \/ NULL_OBJECT_ID = fillPatternID
             THEN IF get_uint8_at(message, 3) <= 3   \* FillWithPatternGivenByFillPatternAttribute
                  THEN call(respond(SetObject(sv, i, objectIdToChange,
                                              [object EXCEPT !.fillPattern = fillPatternID,
                                                             !.fillType = get_uint8_at(message, 3),
                                                             !.backgroundColor = get_uint8_at(message, 4)]), 0),
                            "onRepaint", cf.cf, <<>>)
                  ELSE respond(sv, Bit(ErrorBit.InvalidType))
             ELSE respond(sv, Bit(ErrorBit.InvalidPatternObjectID))
        ELSE respond(sv, Bit(ErrorBit.InvalidObjectID))

ChangeChildPositionCommand(sv, e, i, message) ==
    LET cf == sv.managedWorkingSetList[i]
        parentObjectId == get_uint16_at(message, 1)
        objectID == get_uint16_at(message, 3)
        respond(s, errorBitfield) ==
            send_response(s, Function.ChangeChildPositionCommand, parentObjectId, objectID,
                          errorBitfield, 0, message.src)
    IN  IF Len(message.data) > CAN_DATA_LENGTH
        THEN LET newXPosition == get_uint16_at(message, 5)
                 newYPosition == get_uint16_at(message, 7)
                 parentObject == get_object_by_id(cf, parentObjectId)
                 targetObject == get_object_by_id(cf, objectID)
                 found == {k \in 1..Len(parentObject.children) : parentObject.children[k].id = objectID}
                 placed == [parentObject EXCEPT !.children =
                               [k \in 1..Len(@) |->
                                   IF k \in found
                                   THEN [@[k] EXCEPT !.xLocation = Int16(newXPosition),
                                                     !.yLocation = Int16(newYPosition)]
                                   ELSE @[k]]]
                 fired == [k \in 1..Cardinality(found) |->
                              [dispatcher |-> "onChangeChildPosition", cf |-> cf.cf,
                               arguments |-> <<parentObjectId, objectID, newXPosition, newYPosition>>]]
             IN  IF parentObject # NullObject
                 THEN IF targetObject # NullObject
                      THEN IF parentObject.type \in {"Button", "Container", "AlarmMask", "DataMask", "Key",
                                                     "WorkingSet", "AuxiliaryInputType2", "WindowMask"}
                           THEN IF found # {}
                                THEN respond([SetObject(sv, i, parentObjectId, placed)
                                                 EXCEPT !.events = @ \o fired], 0)
                                ELSE respond(sv, Bit(ErrorBit.TargetObjectDoesNotExistOrIsNotApplicable))
                           ELSE respond(sv, Bit(ErrorBit.AnyOtherError))
                      ELSE respond(sv, Bit(ErrorBit.TargetObjectDoesNotExistOrIsNotApplicable))
                 ELSE respond(sv, Bit(ErrorBit.ParentObjectDoesntExistOrIsNotAParentOfSpecifiedObject))
        ELSE respond(sv, Bit(ErrorBit.AnyOtherError))

\* VTObject::set_attribute of the target's class: attributes 1 and 2 can be
\* written, attribute 0 is the read-only type
set_attribute(object, attributeID, attributeData) ==
    IF attributeID \in {1, 2}
    THEN [retVal |-> TRUE, errorCode |-> ErrorBit.AnyOtherError,
          object |-> [object EXCEPT !.attributes =
                         [a \in DOMAIN @ \cup {attributeID} |->
                             IF a = attributeID THEN attributeData ELSE @[a]]]]
    ELSE [retVal |-> FALSE, errorCode |-> ErrorBit.InvalidAttributeID, object |-> object]

ChangeAttributeCommand(sv, e, i, message) ==
    LET cf == sv.managedWorkingSetList[i]
        objectID == get_uint16_at(message, 1)
        targetObject == get_object_by_id(cf, objectID)
        attributeID == get_uint8_at(message, 3)
        attributeData == get_uint32_at(message, 4)
        set == set_attribute(targetObject, attributeID, attributeData)
        respond(s, errorBitfield) ==
            send_response(s, Function.ChangeAttributeCommand, objectID, 0, errorBitfield,
                          attributeID, message.src)
    IN  IF NULL_OBJECT_ID # objectID /\ targetObject # NullObject
        THEN IF set.retVal
             THEN call(respond(SetObject(sv, i, objectID, set.object), 0), "onRepaint", cf.cf, <<>>)
             ELSE respond(sv, Bit(set.errorCode))
        ELSE respond(sv, Bit(ErrorBit.InvalidObjectID))

ChangeSizeCommand(sv, e, i, message) ==
    LET cf == sv.managedWorkingSetList[i]
        objectID == get_uint16_at(message, 1)
        newWidth == get_uint16_at(message, 3)
        newHeight == get_uint16_at(message, 5)
        targetObject == get_object_by_id(cf, objectID)
        respond(s, errorBitfield) ==
            send_response(s, Function.ChangeSizeCommand, objectID, 0, errorBitfield, 0, message.src)
        resized == call(SetObject(sv, i, objectID,
                                  [targetObject EXCEPT !.width = newWidth, !.height = newHeight]),
                        "onRepaint", cf.cf, <<>>)
    IN  IF targetObject # NullObject
        THEN CASE targetObject.type = "OutputMeter" ->
                      IF newWidth = newHeight THEN respond(resized, 0)
                      ELSE respond(sv, Bit(ErrorBit.AnyOtherError))
               [] targetObject.type \in {"Animation", "OutputArchedBarGraph", "OutputPolygon",
                                         "OutputEllipse", "OutputRectangle", "OutputLine",
                                         "OutputNumber", "OutputList", "InputList", "Button",
                                         "Container"} -> respond(resized, 0)
               [] OTHER -> respond(sv, Bit(ErrorBit.AnyOtherError))
        ELSE respond(sv, Bit(ErrorBit.InvalidObjectID))

\* InputList::change_list_item and OutputList::change_list_item
change_list_item(object, index, newListItem) ==
    IF index < Len(object.children)
    THEN [retVal |-> TRUE, object |-> [object EXCEPT !.children[index + 1].id = newListItem]]
    ELSE [retVal |-> FALSE, object |-> object]

ChangeListItemCommand(sv, e, i, message) ==
    LET cf == sv.managedWorkingSetList[i]
        objectID == get_uint16_at(message, 1)
        newObjectID == get_uint16_at(message, 4)
        listIndex == get_uint8_at(message, 3)
        targetObject == get_object_by_id(cf, objectID)
        newObject == get_object_by_id(cf, newObjectID)
        changed == change_list_item(targetObject, listIndex, newObjectID)
        respond(s, errorBitfield) ==
            send_response(s, Function.ChangeListItemCommand, objectID, newObjectID, errorBitfield,
                          listIndex, message.src)
    IN  IF targetObject # NullObject
        THEN IF NULL_OBJECT_ID = newObjectID \/ newObject # NullObject
             THEN IF targetObject.type \in {"InputList", "OutputList"} /\ changed.retVal
                  THEN call(respond(SetObject(sv, i, objectID, changed.object), 0),
                            "onRepaint", cf.cf, <<>>)
                  ELSE respond(sv, Bit(ErrorBit.AnyOtherError))
             ELSE respond(sv, Bit(ErrorBit.InvalidNewListItemObjectID))
        ELSE respond(sv, Bit(ErrorBit.InvalidObjectID))

ChangeFontAttributesCommand(sv, e, i, message) ==
    LET cf == sv.managedWorkingSetList[i]
        objectID == get_uint16_at(message, 1)
        targetObject == get_object_by_id(cf, objectID)
        fontColour == get_uint8_at(message, 3)
        fontSize == get_uint8_at(message, 4)
        fontType == get_uint8_at(message, 5)
        fontStyle == get_uint8_at(message, 6)
        respond(s, errorBitfield) ==
            send_response(s, Function.ChangeFontAttributesCommand, objectID, 0, errorBitfield, 0,
                          message.src)
    IN  IF targetObject # NullObject /\ targetObject.type = "FontAttributes"
        THEN IF fontSize <= 14   \* FontAttributes::FontSize::Size128x192
             THEN call(respond(SetObject(sv, i, objectID,
                                         [targetObject EXCEPT !.backgroundColor = fontColour,
                                                              !.fontSize = fontSize,
                                                              !.fontType = fontType,
                                                              !.fontStyle = fontStyle]), 0),
                       "onRepaint", cf.cf, <<>>)
             ELSE respond(sv, Bit(ErrorBit.InvalidSize))
        ELSE respond(sv, Bit(ErrorBit.InvalidObjectID))

\* AlarmMask::change_soft_key_mask and DataMask::change_soft_key_mask
change_soft_key_mask(cf, object, newMaskID) ==
    IF NULL_OBJECT_ID = newMaskID \/ get_object_by_id(cf, newMaskID).type = "SoftKeyMask"
    THEN [retVal |-> TRUE, object |-> [object EXCEPT !.softKeyMask = newMaskID]]
    ELSE [retVal |-> FALSE, object |-> object]

ChangeSoftKeyMaskCommand(sv, e, i, message) ==
    LET cf == sv.managedWorkingSetList[i]
        objectID == get_uint16_at(message, 1)
        newObjectID == get_uint16_at(message, 3)
        targetObject == get_object_by_id(cf, objectID)
        newObject == get_object_by_id(cf, newObjectID)
        changed == change_soft_key_mask(cf, targetObject, newObjectID)
        respond(s, errorBitfield) ==
            send_response(s, Function.ChangeSoftKeyMaskCommand, objectID, newObjectID, errorBitfield,
                          0, message.src)
    IN  IF targetObject # NullObject
        THEN IF NULL_OBJECT_ID = newObjectID \/ newObject # NullObject
             THEN IF targetObject.type \in {"AlarmMask", "DataMask"} /\ changed.retVal
                  THEN respond(SetObject(sv, i, objectID, changed.object), 0)
                  ELSE respond(sv, Bit(ErrorBit.AnyOtherError))
             ELSE respond(sv, Bit(ErrorBit.InvalidSoftKeyMaskObjectID))
        ELSE respond(sv, Bit(ErrorBit.InvalidDataOrAlarmMaskObjectID))

\* the answers to GetMemory, GetNumberOfSoftKeys, GetTextFontData, GetHardware,
\* GetSupportedWidechars, GetVersions and GetSupportedObjects: one frame to the
\* sender, filled from the getters of the application
Inquiry(sv, e, i, message) ==
    send_can_message(sv, VirtualTerminalToECU,
                     <<get_uint8_at(message, 0)>> \o [k \in 1..7 |-> 255],
                     sv.serverInternalControlFunction, message.src)

ObjectPoolTransferMessage(sv, e, i, message) ==
    [sv EXCEPT !.managedWorkingSetList[i] = add_iop_raw_data(@, Tail(message.data))]

\* e.loadedVersion is what the application's load_version returns
LoadVersionCommand(sv, e, i, message) ==
    LET loaded == [sv EXCEPT !.managedWorkingSetList[i] =
                      IF e.loadedVersion # <<>> THEN add_iop_raw_data(@, e.loadedVersion) ELSE @]
        errorCodes == IF e.loadedVersion # <<>> THEN 0 ELSE 1
        started == [loaded EXCEPT !.managedWorkingSetList[i] =
                       IF get_any_object_pools(@) THEN start_parsing_thread(@) ELSE @]
    IN  send_can_message(started, VirtualTerminalToECU,
                         <<Function.LoadVersionCommand, 255, 255, 255, 255, errorCodes, 255, 255>>,
                         sv.serverInternalControlFunction, message.src)

\* e.didSave is what the application's save_version returns
StoreVersionCommand(sv, e, i, message) ==
    LET cf == sv.managedWorkingSetList[i]
    IN  IF get_any_object_pools(cf)
        THEN send_can_message(sv, VirtualTerminalToECU,
                              <<Function.StoreVersionCommand, 255, 255, 255, 255,
                                IF e.didSave THEN 0 ELSE 4, 255, 255>>,
                              sv.serverInternalControlFunction, message.src)
        ELSE send_acknowledgement(sv, NegativeAcknowledgement, ECUtoVirtualTerminal,
                                  sv.serverInternalControlFunction, cf.cf)

\* EndOfObjectPoolMessage answering in the same call instead of leaving the
\* answer to update()
EndOfObjectPoolMessage_answersAtOnce(sv, e, i, message) ==
    send_end_of_object_pool_response(
        [sv EXCEPT !.managedWorkingSetList[i] =
            IF get_any_object_pools(@) THEN start_parsing_thread(@) ELSE @],
        TRUE, NULL_OBJECT_ID, NULL_OBJECT_ID, 0, sv.managedWorkingSetList[i].cf)

EndOfObjectPoolMessage(sv, e, i, message) ==
    [sv EXCEPT !.managedWorkingSetList[i] =
        IF get_any_object_pools(@) THEN start_parsing_thread(@) ELSE @]

WorkingSetMaintenanceMessage(sv, e, i, message) ==
    [sv EXCEPT !.managedWorkingSetList[i].workingSetMaintenanceMessageTimestamp_ms =
        IF 0 # @ THEN e.now ELSE @]

\* the switch on data[0]
Dispatch(sv, e, i, message) ==
    LET function == get_uint8_at(message, 0)
    IN  CASE function = Function.ObjectPoolTransferMessage -> ObjectPoolTransferMessage(sv, e, i, message)
          [] function \in {Function.GetMemoryMessage, Function.GetNumberOfSoftKeysMessage,
                           Function.GetTextFontDataMessage, Function.GetHardwareMessage,
                           Function.GetSupportedWidecharsMessage, Function.GetVersionsMessage,
                           Function.GetSupportedObjectsMessage} -> Inquiry(sv, e, i, message)
          [] function = Function.LoadVersionCommand -> LoadVersionCommand(sv, e, i, message)
          [] function = Function.StoreVersionCommand -> StoreVersionCommand(sv, e, i, message)
          [] function = Function.EndOfObjectPoolMessage -> EndOfObjectPoolMessage(sv, e, i, message)
          [] function = Function.WorkingSetMaintenanceMessage -> WorkingSetMaintenanceMessage(sv, e, i, message)
          [] function = Function.ChangeNumericValueCommand -> ChangeNumericValueCommand(sv, e, i, message)
          [] function = Function.HideShowObjectCommand -> HideShowObjectCommand(sv, e, i, message)
          [] function = Function.EnableDisableObjectCommand -> EnableDisableObjectCommand(sv, e, i, message)
          [] function = Function.ChangeChildLocationCommand -> ChangeChildLocationCommand(sv, e, i, message)
          [] function = Function.ChangeActiveMaskCommand -> ChangeActiveMaskCommand(sv, e, i, message)
          [] function = Function.ChangeStringValueCommand -> ChangeStringValueCommand(sv, e, i, message)
          [] function = Function.ChangeFillAttributesCommand -> ChangeFillAttributesCommand(sv, e, i, message)
          [] function = Function.ChangeChildPositionCommand -> ChangeChildPositionCommand(sv, e, i, message)
          [] function = Function.ChangeAttributeCommand -> ChangeAttributeCommand(sv, e, i, message)
          [] function = Function.ChangeSizeCommand -> ChangeSizeCommand(sv, e, i, message)
          [] function = Function.ChangeListItemCommand -> ChangeListItemCommand(sv, e, i, message)
          [] function = Function.ChangeFontAttributesCommand -> ChangeFontAttributesCommand(sv, e, i, message)
          [] function = Function.ChangeSoftKeyMaskCommand -> ChangeSoftKeyMaskCommand(sv, e, i, message)
          [] OTHER -> sv

\* the test of the frame's length in front of check_if_source_is_managed
LongEnough(message) ==
    \/ CAN_DATA_LENGTH <= Len(message.data)
    \/ Len(message.data) > 5 /\ Function.ChangeStringValueCommand = get_uint8_at(message, 0)

process_rx_message(sv, e, message) ==
    IF message.src # NULL /\ LongEnough(message)
    THEN IF check_if_source_is_managed_result(sv, message)
         THEN LET i == CHOOSE k \in 1..Len(sv.managedWorkingSetList) :
                           sv.managedWorkingSetList[k].cf = message.src
              IN  IF message.pgn = ECUtoVirtualTerminal THEN Dispatch(sv, e, i, message) ELSE sv
         ELSE check_if_source_is_managed(sv, e, message)
    ELSE sv

-----------------------------------------------------------------------------
(* VirtualTerminalServer::update *)

\* VirtualTerminalServerManagedWorkingSet::get_working_set_object
get_working_set_object(ws) ==
    IF \E id \in DOMAIN ws.objects : ws.objects[id].type = "WorkingSet"
    THEN ws.objects[CHOOSE id \in DOMAIN ws.objects : ws.objects[id].type = "WorkingSet"]
    ELSE NullObject

\* the loop of update over managedWorkingSetList, from element i on
RECURSIVE UpdateWorkingSets(_, _)
UpdateWorkingSets(sv, i) ==
    IF i > Len(sv.managedWorkingSetList) THEN sv
    ELSE LET ws == sv.managedWorkingSetList[i]
             joined == [sv EXCEPT !.managedWorkingSetList[i] = join_parsing_thread(@)]
         IN  CASE ws.state = "Success" ->
                      LET answered == send_end_of_object_pool_response(joined, TRUE, NULL_OBJECT_ID,
                                                                       NULL_OBJECT_ID, 0, ws.cf)
                      IN  UpdateWorkingSets(
                              IF NULL_CAN_ADDRESS = sv.activeWorkingSetMasterAddress
                              THEN [answered EXCEPT
                                       !.activeWorkingSetMasterAddress = get_address[ws.cf],
                                       !.activeWorkingSetDataMaskObjectID = get_working_set_object(ws).activeMask]
                              ELSE answered, i + 1)
               [] ws.state = "Fail" ->
                      UpdateWorkingSets(send_end_of_object_pool_response(joined, TRUE, NULL_OBJECT_ID,
                                                                         ws.faultingObjectID, 0, ws.cf),
                                        i + 1)
               [] OTHER -> UpdateWorkingSets(sv, i + 1)

VirtualTerminalServer_update(sv, e) ==
    LET heartbeat ==
            IF time_expired_ms(e, sv.statusMessageTimestamp_ms, 1000)
            THEN IF send_ok(sv, sv.serverInternalControlFunction)
                 THEN [send_status_message(sv) EXCEPT !.statusMessageTimestamp_ms = e.now]
                 ELSE sv
            ELSE sv
    IN  UpdateWorkingSets(heartbeat, 1)

-----------------------------------------------------------------------------
(* State machine *)

Manager(budget) ==
    [s |-> activeSessions, out |-> <<>>, cbs |-> <<>>, rx |-> <<>>, budget |-> budget,
     crashed |-> FALSE, alloc |-> allocated]

\* what a call reads from its surroundings: the clock, the control function
\* registry, the configuration and the outcome of undefined behaviour
Env(ub) ==
    [now |-> now, alive |-> alive, addressValid |-> alive, internal |-> Internal,
     cfg |-> config, ub |-> ub]

\* the manager's part of the next state
Commit(m, op) ==
    /\ activeSessions' = m.s
    /\ allocated' = m.alloc
    /\ crashed' = m.crashed
    /\ sent' = m.out
    /\ callbacks' = m.cbs
    /\ delivered' = m.rx
    /\ lastOp' = op
    /\ UNCHANGED server

LinkVars == <<peer>>

\* exploration stops growing the table here
TableLimit == IF config.maxSessions > MaxTableLen THEN config.maxSessions ELSE MaxTableLen

\* the other manager before the link is used
PeerIdle ==
    [s |-> <<>>, alloc |-> FALSE, crashed |-> FALSE, toPeer |-> <<>>, fromPeer |-> <<>>,
     delivered |-> <<>>, payload |-> NullData, done |-> <<>>]

Init ==
    /\ activeSessions = <<>>
    /\ allocated = FALSE
    /\ crashed = FALSE
    /\ now = 0
    /\ alive = CF
    /\ config = Configuration(MaxSessions)
    /\ sent = <<>>
    /\ callbacks = <<>>
    /\ delivered = <<>>
    /\ lastOp = "init"
    /\ retVal = FALSE
    /\ peer = PeerIdle
    /\ server = ServerIdle

TransmitData == {NullData} \cup {DataView(n, b) : n \in DataSizes, b \in DataBases}

\* the application asks for a multi packet transmission
TransmitWith(pgn, data, source, destination, cb, valid) ==
    /\ ~ crashed
    /\ LET m == Manager(0)
           e == [Env(NoUB) EXCEPT !.addressValid = IF valid THEN alive ELSE {}]
       IN  /\ Commit(protocol_transmit_message(m, e, pgn, data, source, destination, cb), "transmit")
           /\ retVal' = protocol_transmit_message_result(m, e, data, source, destination)
    /\ Len(activeSessions') <= TableLimit
    /\ UNCHANGED <<now, alive, config>>
    /\ UNCHANGED LinkVars

Transmit ==
    \E pgn \in TxPGNs, data \in TransmitData,
       source \in (Internal \cap alive) \cup {NULL},
       destination \in (External \cap alive) \cup {NULL},
       cb \in Callbacks, valid \in BOOLEAN :
       TransmitWith(pgn, data, source, destination, cb, valid)

\* Frames a peer can put on the bus
RtsFrame(mux, src, dst, pgn, size, packets, ctsMax) ==
    Frame(TP_CM, src, dst, <<mux, size % 256, size \div 256, packets, ctsMax>> \o PgnBytes(pgn))

CtsFrame(src, dst, pgn, n, next) ==
    Frame(TP_CM, src, dst, <<CLEAR_TO_SEND_MULTIPLEXOR, n, next, 255, 255>> \o PgnBytes(pgn))

EomFrame(src, dst, pgn, size, packets) ==
    Frame(TP_CM, src, dst, <<END_OF_MESSAGE_ACKNOWLEDGE_MULTIPLEXOR, size % 256, size \div 256, packets, 255>> \o PgnBytes(pgn))

AbortFrame(src, dst, pgn, reason) ==
    Frame(TP_CM, src, dst, <<CONNECTION_ABORT_MULTIPLEXOR, reason, 255, 255, 255>> \o PgnBytes(pgn))

DtFrame(src, dst, seq, len) ==
    Frame(TP_DT, src, dst, [i \in 1..len |-> IF i = 1 THEN seq ELSE 16 + i])

Announcements == {<<9, 2>>}

RxFrames ==
    LET srcs == External \cap alive
        dsts == Internal \cap alive
    IN  {RtsFrame(REQUEST_TO_SEND_MULTIPLEXOR, src, dst, pgn, a[1], a[2], c) :
            src \in srcs, dst \in dsts, pgn \in PGNs, a \in Announcements, c \in {1}}
        \cup {RtsFrame(BROADCAST_ANNOUNCE_MESSAGE_MULTIPLEXOR, src, NULL, pgn, a[1], a[2], 255) :
            src \in srcs, pgn \in TxPGNs, a \in Announcements}
        \cup {CtsFrame(src, dst, pgn, n, next) :
            src \in srcs, dst \in dsts, pgn \in PGNs, n \in {0, 2}, next \in {1, 3}}
        \cup {EomFrame(src, dst, pgn, 9, 2) : src \in srcs, dst \in dsts, pgn \in PGNs}
        \cup {AbortFrame(src, dst, pgn, Timeout) : src \in srcs, dst \in dsts, pgn \in PGNs}
        \cup {DtFrame(src, dst, seq, len) :
            src \in srcs, dst \in dsts \cup {NULL}, seq \in {0, 1, 2}, len \in {7, 8}}
        \cup {RtsFrame(REQUEST_TO_SEND_MULTIPLEXOR, src, NULL, 65280, 9, 2, 16) : src \in srcs}
        \cup {Frame(TP_CM, src, dst, <<16, 9, 0>>) : src \in srcs, dst \in dsts}

\* the lookups of the handler of this frame run behind the end of the vector,
\* or a session with an expired control function can be found
LookupMisses(message) ==
    /\ allocated
    /\ \/ ~ \E i \in 1..Len(activeSessions) :
              SessionMatches(alive, activeSessions[i], message.src, message.dst)
       \/ alive # CF
       \/ /\ message.pgn = TP_CM
          /\ Len(message.data) = CAN_DATA_LENGTH
          /\ message.data[1] = CONNECTION_ABORT_MULTIPLEXOR

\* the network manager hands a received frame to process_message
ReceiveWith(message, budget, ub) ==
    /\ ~ crashed
    /\ Commit(process_message(Manager(budget), Env(ub), message), "receive")
    /\ Len(activeSessions') <= TableLimit
    /\ UNCHANGED <<now, alive, config, retVal>>
    /\ UNCHANGED LinkVars

Receive ==
    \E message \in RxFrames, budget \in ReplyBudgets :
        \E ub \in (IF LookupMisses(message) THEN UBOutcomes ELSE {NoUB}) :
            ReceiveWith(message, budget, ub)

\* the network manager's periodic update
UpdateWith(budget, ub) ==
    /\ ~ crashed
    /\ Commit(update(Manager(budget), Env(ub)), "update")
    /\ UNCHANGED <<now, alive, config, retVal>>
    /\ UNCHANGED LinkVars

Update ==
    \E budget \in Budgets :
        \E ub \in (IF Len(activeSessions) >= 2 THEN UBOutcomes ELSE {NoUB}) :
            UpdateWith(budget, ub)

\* time passes
AdvanceTime ==
    /\ ~ crashed
    /\ \E d \in TimeSteps : now + d <= MaxTime /\ now' = now + d
    /\ lastOp' = "time"
    /\ sent' = <<>> /\ callbacks' = <<>> /\ delivered' = <<>>
    /\ UNCHANGED <<activeSessions, allocated, crashed, alive, config, retVal>>
    /\ UNCHANGED <<peer, server>>

\* a control function leaves the network: its shared_ptr is released
DestroyControlFunction ==
    /\ ~ crashed
    /\ \E cf \in alive : alive' = alive \ {cf}
    /\ lastOp' = "destroy"
    /\ sent' = <<>> /\ callbacks' = <<>> /\ delivered' = <<>>
    /\ UNCHANGED <<activeSessions, allocated, crashed, now, config, retVal>>
    /\ UNCHANGED <<peer, server>>

Next ==
    \/ Transmit
    \/ Receive
    \/ Update
    \/ AdvanceTime
    \/ DestroyControlFunction

Spec == Init /\ [][Next]_vars

-----------------------------------------------------------------------------
(* A manager configured for one session more, receiving announcements *)

InitCapacity ==
    /\ activeSessions = <<>>
    /\ allocated = FALSE
    /\ crashed = FALSE
    /\ now = 0
    /\ alive = CF
    /\ config = Configuration(MaxSessions + 1)
    /\ sent = <<>>
    /\ callbacks = <<>>
    /\ delivered = <<>>
    /\ lastOp = "init"
    /\ retVal = FALSE
    /\ peer = PeerIdle
    /\ server = ServerIdle

\* a peer announces a message: TP.CM with RTS or BAM
Announce ==
    \E message \in {f \in RxFrames : f.pgn = TP_CM /\ Len(f.data) = CAN_DATA_LENGTH
                                      /\ f.data[1] \in {REQUEST_TO_SEND_MULTIPLEXOR, BROADCAST_ANNOUNCE_MESSAGE_MULTIPLEXOR}},
       budget \in ReplyBudgets :
        \E ub \in (IF LookupMisses(message) THEN UBOutcomes ELSE {NoUB}) :
            ReceiveWith(message, budget, ub)

NextCapacity ==
    \/ Announce
    \/ Update
    \/ AdvanceTime
    \/ DestroyControlFunction

SpecCapacity == InitCapacity /\ [][NextCapacity]_vars

-----------------------------------------------------------------------------
(* A manager configured with a cap below the size the table can take *)

SmallSessionCap == 1

InitAdmission ==
    /\ activeSessions = <<>>
    /\ allocated = FALSE
    /\ crashed = FALSE
    /\ now = 0
    /\ alive = CF
    /\ config = Configuration(SmallSessionCap)
    /\ sent = <<>>
    /\ callbacks = <<>>
    /\ delivered = <<>>
    /\ lastOp = "init"
    /\ retVal = FALSE
    /\ peer = PeerIdle
    /\ server = ServerIdle

SpecAdmission == InitAdmission /\ [][Next]_vars

-----------------------------------------------------------------------------
(* Two managers on one bus: this manager sends to the manager of E1 *)

LinkBudget == 300                \* the bus accepts every frame
LinkPayloads == {DataView(9, 1), DataView(15, 1)}

PeerManager ==
    [s |-> peer.s, out |-> <<>>, cbs |-> <<>>, rx |-> <<>>, budget |-> LinkBudget,
     crashed |-> FALSE, alloc |-> peer.alloc]

\* E1 is the internal control function of the other manager
PeerEnv(ub) == [Env(ub) EXCEPT !.internal = External]

PeerCommit(r) ==
    [peer EXCEPT !.s = r.s, !.alloc = r.alloc, !.crashed = r.crashed,
                 !.delivered = @ \o r.rx, !.fromPeer = @ \o r.out]

Quiet == sent' = <<>> /\ callbacks' = <<>> /\ delivered' = <<>> /\ UNCHANGED server

\* the application hands one payload to this manager
LinkTransmit ==
    /\ ~ crashed
    /\ peer.payload = NullData
    /\ \E data \in LinkPayloads, destination \in External \cup {NULL} :
          /\ Commit(protocol_transmit_message(Manager(0), Env(NoUB), 65280, data, "I1", destination, TRUE),
                    "transmit")
          /\ retVal' = protocol_transmit_message_result(Manager(0), Env(NoUB), data, "I1", destination)
          /\ peer' = [peer EXCEPT !.payload = data]
    /\ UNCHANGED <<now, alive, config>>

\* update() of this manager; its frames go onto the bus
LinkUpdate ==
    /\ ~ crashed
    /\ \E ub \in (IF Len(activeSessions) >= 2 THEN UBOutcomes ELSE {NoUB}) :
          LET r == update(Manager(LinkBudget), Env(ub))
          IN  /\ Commit(r, "update")
              /\ peer' = [peer EXCEPT !.toPeer = @ \o r.out, !.done = @ \o r.cbs]
    /\ UNCHANGED <<now, alive, config, retVal>>

\* the bus carries the oldest frame to the other manager's process_message
LinkCarry ==
    /\ ~ peer.crashed
    /\ peer.toPeer # <<>>
    /\ \E ub \in (IF peer.alloc THEN UBOutcomes ELSE {NoUB}) :
          peer' = [PeerCommit(process_message(PeerManager, PeerEnv(ub), Head(peer.toPeer)))
                      EXCEPT !.toPeer = Tail(peer.toPeer)]
    /\ lastOp' = "carry"
    /\ Quiet
    /\ UNCHANGED <<activeSessions, allocated, crashed, now, alive, config, retVal>>

\* update() of the other manager
LinkPeerUpdate ==
    /\ ~ peer.crashed
    /\ \E ub \in (IF Len(peer.s) >= 2 THEN UBOutcomes ELSE {NoUB}) :
          peer' = PeerCommit(update(PeerManager, PeerEnv(ub)))
    /\ lastOp' = "peerUpdate"
    /\ Quiet
    /\ UNCHANGED <<activeSessions, allocated, crashed, now, alive, config, retVal>>

\* the bus carries the oldest frame of the other manager to this manager
LinkCarryBack ==
    /\ ~ crashed
    /\ peer.fromPeer # <<>>
    /\ \E ub \in (IF allocated THEN UBOutcomes ELSE {NoUB}) :
          LET r == process_message(Manager(LinkBudget), Env(ub), Head(peer.fromPeer))
          IN  /\ Commit(r, "receive")
              /\ peer' = [peer EXCEPT !.fromPeer = Tail(peer.fromPeer), !.toPeer = @ \o r.out,
                                      !.done = @ \o r.cbs]
    /\ UNCHANGED <<now, alive, config, retVal>>

NextLink ==
    \/ LinkTransmit
    \/ LinkUpdate
    \/ LinkCarry
    \/ LinkPeerUpdate
    \/ LinkCarryBack
    \/ AdvanceTime

SpecLink == Init /\ [][NextLink]_vars

-----------------------------------------------------------------------------
(* The manager left to itself: the application and the peer act before the  *)
(* clock moves, then only update() and the clock go on                      *)

\* time passes.  At MaxTime the clock of the model stands still and the
\* timestamps of the sessions move back instead, so that the time a session
\* has waited keeps growing; a timestamp at 0 is then at least MaxTime old,
\* which is beyond every timeout.
PassTime ==
    /\ ~ crashed
    /\ \E d \in TimeSteps :
          IF now + d <= MaxTime
          THEN now' = now + d /\ UNCHANGED activeSessions
          ELSE /\ now' = now
               /\ activeSessions' =
                      [k \in 1..Len(activeSessions) |->
                          [activeSessions[k] EXCEPT
                              !.timestamp_ms = IF @ > d THEN @ - d ELSE 0]]
    /\ lastOp' = "time"
    /\ sent' = <<>> /\ callbacks' = <<>> /\ delivered' = <<>>
    /\ UNCHANGED <<allocated, crashed, alive, config, retVal>>
    /\ UNCHANGED <<peer, server>>

NextDrain ==
    \/ now = 0 /\ Transmit
    \/ now = 0 /\ Receive
    \/ Update
    \/ PassTime
    \/ DestroyControlFunction

\* update() is called again and again with a bus that accepts its frames,
\* and time passes
SpecDrain ==
    /\ Init
    /\ [][NextDrain]_vars
    /\ WF_vars(PassTime)
    /\ WF_vars(\E ub \in (IF Len(activeSessions) >= 2 THEN UBOutcomes ELSE {NoUB}) :
                   UpdateWith(LinkBudget, ub))

-----------------------------------------------------------------------------
(* The virtual terminal server and its clients *)

MaxPoolFiles == 1       \* object pool files a client uploads

\* the types of the objects 1..25 of a parsed pool
PoolTypes ==
    << "WorkingSet", "DataMask", "Container", "SoftKeyMask", "OutputMeter",
       "NumberVariable", "OutputString", "InputBoolean", "Key", "InputList",
       "FillAttributes", "FontAttributes", "OutputLinearBarGraph", "InputNumber",
       "OutputNumber", "OutputList", "OutputArchedBarGraph", "Button", "InputString",
       "StringVariable", "AlarmMask", "PictureGraphic", "ObjectPointer",
       "ExternalObjectPointer", "Animation" >>

\* a pool whose references all resolve to permitted objects
GoodPool ==
    LET children(objectID) ==
            CASE objectID \in {1, 2} -> <<ChildObjectData(3, 0, 0)>>
              [] objectID = 3 -> <<ChildObjectData(5, 10, 20), ChildObjectData(7, 0, 0),
                                   ChildObjectData(5, -5, 7)>>
              [] objectID = 4 -> <<ChildObjectData(9, 0, 0)>>
              [] objectID = 10 -> <<ChildObjectData(6, 0, 0), ChildObjectData(NULL_OBJECT_ID, 0, 0)>>
              [] objectID = 23 -> <<ChildObjectData(5, 0, 0)>>
              [] OTHER -> <<>>
    IN  [objectID \in 1..Len(PoolTypes) |->
            [VTObject(PoolTypes[objectID], objectID, children(objectID))
                EXCEPT !.activeMask = IF objectID = 1 THEN 2 ELSE @]]

\* what the parser makes of the raw data of a client: the good pool, the same
\* pool with a child 77 of the working set object that is in no pool, and the
\* same pool with a container among the children of the soft key mask
ParsedPools ==
    {GoodPool,
     [GoodPool EXCEPT ![1].children = Append(@, ChildObjectData(77, 0, 0))],
     [GoodPool EXCEPT ![4].children = Append(@, ChildObjectData(3, 0, 0))]}

\* the worker thread of a managed working set: the raw data parsed into
\* objects, each object with a get_is_valid of this model validated; the
\* invalid object with the lowest ID is the faulting one
worker_thread_function(ws, pool) ==
    LET parsed == [ws EXCEPT !.objects = pool]
        invalid == {objectID \in DOMAIN pool :
                       /\ pool[objectID].type \in DOMAIN PermittedChildTypes
                       /\ ~ get_is_valid(parsed, pool[objectID])}
    IN  IF invalid = {}
        THEN [parsed EXCEPT !.state = "Success"]
        ELSE [parsed EXCEPT !.state = "Fail",
                            !.faultingObjectID = CHOOSE objectID \in invalid :
                                                    \A other \in invalid : objectID <= other]

\* the entry initialize() registers with the network manager
RxCallback ==
    [parameterGroupNumber |-> ECUtoVirtualTerminal, callback |-> "process_rx_message",
     parent |-> "this"]

\* initialize(): add_any_control_function_parameter_group_number_callback
\* appends the entry unless the list holds an equal one; the member
\* initialized is written nowhere
initialize(sv) ==
    IF ~ sv.initialized
    THEN [sv EXCEPT !.rxCallbacks =
                 IF \E k \in 1..Len(@) : @[k] = RxCallback THEN @ ELSE Append(@, RxCallback)]
    ELSE sv

get_initialized(sv) == sv.initialized

\* ~VirtualTerminalServer():
\* remove_any_control_function_parameter_group_number_callback erases the
\* entry that equals the one given
VirtualTerminalServer_destructor(sv) ==
    IF sv.initialized
    THEN [sv EXCEPT !.rxCallbacks = SelectSeq(@, LAMBDA entry : entry # RxCallback)]
    ELSE sv

ServerContext(budget) ==
    [server EXCEPT !.out = <<>>, !.events = <<>>] @@ [budget |-> budget]

ServerEnv(loadedVersion, didSave, trap) ==
    [now |-> now, loadedVersion |-> loadedVersion, didSave |-> didSave, trap |-> trap]

ServerCommit(r, op) ==
    /\ server' = [field \in DOMAIN server |-> r[field]]
    /\ lastOp' = op
    /\ UNCHANGED <<activeSessions, allocated, crashed, now, alive, sent, callbacks,
                   delivered, retVal, config, peer>>

\* a frame of a client to the server
ClientFrame(source, data) == Frame(ECUtoVirtualTerminal, source, "I1", data)

Bytes16(value) == <<LowByte(value), HighByte(value)>>

Bytes32(value) == Bytes16(value % 65536) \o Bytes16(value \div 65536)

\* the commands the clients of this model send while it is explored
ExploredData ==
    { <<Function.WorkingSetMaintenanceMessage, 1, 3, 255, 255, 255, 255, 255>>,
      <<Function.WorkingSetMaintenanceMessage, 1, 3>>,
      <<Function.ObjectPoolTransferMessage, 1, 2, 3, 4, 5, 6, 7>>,
      <<Function.EndOfObjectPoolMessage, 255, 255, 255, 255, 255, 255, 255>>,
      <<Function.LoadVersionCommand, 65, 66, 67, 68, 69, 70, 71>>,
      <<Function.ChangeStringValueCommand>> \o Bytes16(7) \o Bytes16(2) \o <<72, 105, 255>> }

\* the network manager hands a frame of a client to process_rx_message;
\* exploration stops where a client holds more pool files than the bound allows
ServerReceive ==
    /\ ~ server.crashed
    /\ \E k \in 1..Len(server.rxCallbacks) : server.rxCallbacks[k] = RxCallback
    /\ \E data \in ExploredData, budget \in ReplyBudgets, loadedVersion \in {<<>>, <<9, 9>>} :
          LET r == process_rx_message(ServerContext(budget), ServerEnv(loadedVersion, TRUE, TRUE),
                                      ClientFrame("E1", data))
          IN  /\ \A i \in 1..Len(r.managedWorkingSetList) :
                     Len(r.managedWorkingSetList[i].iopRawData) <= MaxPoolFiles
              /\ ServerCommit(r, "serverReceive")

\* the application calls update() of the server
ServerUpdate ==
    /\ ~ server.crashed
    /\ \E budget \in ReplyBudgets :
          ServerCommit(VirtualTerminalServer_update(ServerContext(budget), ServerEnv(<<>>, TRUE, TRUE)), "serverUpdate")

\* the worker thread of a working set runs to its end
ParseThread ==
    /\ ~ server.crashed
    /\ \E i \in 1..Len(server.managedWorkingSetList), pool \in ParsedPools :
          /\ server.managedWorkingSetList[i].state = "Running"
          /\ ServerCommit([server EXCEPT !.out = <<>>, !.events = <<>>,
                                         !.managedWorkingSetList[i] = worker_thread_function(@, pool)],
                          "parse")

\* the application calls initialize() of the server
ServerInitialize ==
    /\ ~ server.crashed
    /\ ServerCommit(initialize(ServerContext(0)), "serverInitialize")

NextServer ==
    \/ ServerInitialize
    \/ ServerReceive
    \/ ServerUpdate
    \/ ParseThread
    \/ AdvanceTime

SpecServer == Init /\ [][NextServer]_vars

-----------------------------------------------------------------------------
(* Properties *)

\* the sessions of a table that occupy the slot (source, destination); a
\* broadcast session has no destination control function
SlotIndexes(table, source, destination) ==
    {i \in 1..Len(table) : table[i].source = source /\ table[i].destination = destination}

PacketsFor(length) == (length + 6) \div 7

C1_Refused(data, source, destination, valid) ==
    \/ data = NullData
    \/ data.size <= 8
    \/ data.size > 1785
    \/ source = NULL
    \/ ~ valid
    \/ SlotIndexes(activeSessions, source, destination) # {}

C1_Appended(data, source, destination) ==
    /\ Len(activeSessions') = Len(activeSessions) + 1
    /\ SubSeq(activeSessions', 1, Len(activeSessions)) = activeSessions
    /\ LET session == activeSessions'[Len(activeSessions')]
       IN  /\ session.dir = "Transmit"
           /\ session.source = source /\ session.destination = destination
           /\ session.data = data
           /\ session.state = (IF destination = NULL THEN "BroadcastAnnounce" ELSE "RequestToSend")
           /\ session.packetCount = PacketsFor(data.size)
           /\ session.lastPacketNumber = 0
           /\ session.processedPacketsThisSession = 0

\* C1: a transmit request returns false and leaves the session table as it was
\* when the payload is null, has at most 8 or more than 1785 bytes, the source is
\* null or has no valid address, or a session with the same (source, destination)
\* exists; in every other case it returns true and appends exactly one transmit
\* session, in BroadcastAnnounce for a global destination and RequestToSend
\* otherwise, with packet count ceil(length / 7) and both packet counters 0.
C1_TransmitContract ==
    [][\A pgn \in TxPGNs, data \in TransmitData,
          source \in (Internal \cap alive) \cup {NULL},
          destination \in (External \cap alive) \cup {NULL},
          cb \in Callbacks, valid \in BOOLEAN :
          TransmitWith(pgn, data, source, destination, cb, valid) =>
              IF C1_Refused(data, source, destination, valid)
              THEN retVal' = FALSE /\ activeSessions' = activeSessions
              ELSE retVal' = TRUE /\ C1_Appended(data, source, destination)]_vars

\* C2: a payload this manager accepted and whose frames the bus carried, one by
\* one and in order, to the manager of the destination is delivered there with
\* the same length and the same bytes: nothing else is delivered, and once the
\* sender has completed the session successfully and the bus is empty the
\* receiver has delivered the payload.
C2_RoundTrip ==
    /\ \A k \in 1..Len(peer.delivered) :
          peer.delivered[k].msg.data = [i \in 1..peer.payload.size |-> AppByte(peer.payload.base, i - 1)]
    /\ (/\ \E k \in 1..Len(peer.done) : peer.done[k].successful
        /\ peer.toPeer = <<>>)
       => peer.delivered # <<>>

\* C3: while the manager runs, no two sessions of the table have the same (source, destination); all
\* broadcast sessions of one source count as one destination.
C3_UniqueSlots ==
    ~ crashed =>
    \A i, j \in 1..Len(activeSessions) :
        i # j => ~ (/\ activeSessions[i].source = activeSessions[j].source
                    /\ activeSessions[i].destination = activeSessions[j].destination)

\* well-formed TP.DT frames: a sequence number and seven data bytes
C4_DataFrames ==
    {f \in RxFrames : f.pgn = TP_DT /\ Len(f.data) = 8}

\* C4: on a receive session in RxDataSession whose last accepted sequence number
\* is L, a TP.DT frame with sequence number N is accepted only for N = L + 1
\* (L becomes L + 1, or the message completes); for N = L the session is aborted
\* with reason 8, for any other N with reason 7; in both abort cases the session
\* leaves the table and nothing is delivered.
C4_SequenceValidation ==
    [][\A message \in C4_DataFrames, budget \in ReplyBudgets, ub \in UBOutcomes :
          \A i \in SlotIndexes(activeSessions, message.src, message.dst) :
              (/\ ReceiveWith(message, budget, ub)
               /\ activeSessions[i].dir = "Receive"
               /\ activeSessions[i].state = "RxDataSession")
              => LET L == activeSessions[i].lastPacketNumber
                     N == message.data[1]
                     left == SlotIndexes(activeSessions', message.src, message.dst)
                 IN  IF N = L + 1
                     THEN \/ delivered' # <<>> /\ left = {}
                          \/ \E j \in left : activeSessions'[j].lastPacketNumber = L + 1
                     ELSE /\ left = {}
                          /\ delivered' = <<>>
                          /\ (message.dst # NULL /\ budget > 0) =>
                                 sent' = << AbortFrame(message.dst, message.src, activeSessions[i].pgn,
                                                       IF N = L THEN 8 ELSE 7) >>]_vars

\* the TP.DT frames among out that belong to the slot of session
DataFramesOf(out, session) ==
    SelectSeq(out, LAMBDA f : f.pgn = TP_DT /\ f.src = session.source /\ f.dst = session.destination)

\* the k-th TP.DT frame of a payload: the sequence number, then the payload bytes
\* (k-1)*7 .. min(k*7, length) - 1, then 0xFF
ExpectedDataFrame(data, k) ==
    << k >> \o [j \in 1..7 |-> IF (k - 1) * 7 + (j - 1) < data.size
                               THEN AppByte(data.base, (k - 1) * 7 + (j - 1))
                               ELSE 255]

TransmitIndexes == {i \in 1..Len(activeSessions) : activeSessions[i].dir = "Transmit"}

C8_PacketCount ==
    ~ crashed =>
    \A i \in 1..Len(activeSessions) :
        /\ get_message_data_length(activeSessions[i]) \in 9..1785
        /\ activeSessions[i].packetCount = PacketsFor(get_message_data_length(activeSessions[i]))

\* the transmit sessions a CTS frame is addressed to: the frame comes from the
\* session's destination, goes to its source and names its parameter group
ClearedIndexes(message) ==
    {i \in TransmitIndexes :
        /\ activeSessions[i].source = message.dst
        /\ activeSessions[i].destination = message.src
        /\ activeSessions[i].pgn = get_uint24_at(message, 5)
        /\ activeSessions[i].state = "WaitForClearToSend"
        /\ message.data[3] = activeSessions[i].lastPacketNumber + 1}

ClearToSendFrames(windows) ==
    {f \in RxFrames : /\ f.pgn = TP_CM /\ Len(f.data) = 8
                      /\ f.data[1] = CLEAR_TO_SEND_MULTIPLEXOR /\ f.data[2] \in windows}

\* the TP.DT frames a session is cleared to emit
ClearedFrames(session) ==
    IF session.state = "TxDataSession" THEN session.packetCount - session.lastPacketNumber ELSE 0

\* C6: every TP.DT frame a transmit session emits has a sequence byte in 1..255;
\* a session never emits more TP.DT frames than the packet count it announced in
\* its RTS or BAM, and one that completes successfully has emitted exactly that
\* many; whatever window a CTS of the peer grants, the session is then cleared to
\* emit at least one frame and at most the frames still missing of that count.
C6_FrameCount ==
    [][/\ lastOp' = "update" =>
            /\ \A p \in 1..Len(sent') :
                  sent'[p].pgn = TP_DT => sent'[p].data[1] \in 1..255
            /\ \A i \in TransmitIndexes :
                  LET session == activeSessions[i]
                      total == session.framesEmitted + Len(DataFramesOf(sent', session))
                  IN  /\ total <= session.announcedPackets
                      /\ (\E c \in 1..Len(callbacks') :
                              /\ callbacks'[c].successful
                              /\ callbacks'[c].source = session.source
                              /\ callbacks'[c].destination = session.destination)
                         => total = session.announcedPackets
       /\ \A message \in ClearToSendFrames(1..255), budget \in ReplyBudgets, ub \in UBOutcomes :
            \A i \in ClearedIndexes(message) :
                ReceiveWith(message, budget, ub) =>
                    /\ Len(activeSessions') = Len(activeSessions)
                    /\ ClearedFrames(activeSessions'[i]) \in
                           1..(activeSessions[i].announcedPackets - activeSessions[i].framesEmitted)]_vars

\* C9: a transmit session waiting for a CTS that receives a CTS granting N > 0
\* packets from its destination accepts it and starts the data transfer; a
\* session emits no TP.DT frame while it waits for a CTS.
C9_ClearToSendWindow ==
    [][/\ \A message \in ClearToSendFrames(1..255), budget \in ReplyBudgets, ub \in UBOutcomes :
            \A i \in ClearedIndexes(message) :
                ReceiveWith(message, budget, ub) =>
                    /\ ~ crashed'
                    /\ Len(activeSessions') = Len(activeSessions)
                    /\ activeSessions'[i].state = "TxDataSession"
       /\ lastOp' = "update" =>
            \A i \in TransmitIndexes :
                activeSessions[i].state = "WaitForClearToSend" =>
                    DataFramesOf(sent', activeSessions[i]) = <<>>]_vars

\* C10: a CTS granting 0 packets is a hold: the session stays in
\* WaitForClearToSend with its packet counters as they were, no frame is
\* emitted, and only the timestamp of the session is refreshed.
C10_ClearToSendHold ==
    [][\A message \in ClearToSendFrames({0}), budget \in ReplyBudgets, ub \in UBOutcomes :
            \A i \in ClearedIndexes(message) :
                ReceiveWith(message, budget, ub) =>
                    /\ ~ crashed'
                    /\ sent' = <<>>
                    /\ activeSessions' = [activeSessions EXCEPT ![i].timestamp_ms = now]]_vars

EndOfMessageFrames ==
    {f \in RxFrames : /\ f.pgn = TP_CM /\ Len(f.data) = 8
                      /\ f.data[1] = END_OF_MESSAGE_ACKNOWLEDGE_MULTIPLEXOR}

\* the destination-specific transmit sessions an EOM-ACK frame acknowledges
AcknowledgedIndexes(message) ==
    {i \in TransmitIndexes :
        /\ activeSessions[i].source = message.dst
        /\ activeSessions[i].destination = message.src
        /\ activeSessions[i].pgn = get_uint24_at(message, 5)}

SuccessReported(cbs, session) ==
    \E c \in 1..Len(cbs) :
        /\ cbs[c].successful
        /\ cbs[c].source = session.source
        /\ cbs[c].destination = session.destination
        /\ cbs[c].pgn = session.pgn

\* C11: an EOM-ACK from the destination of a destination-specific transmit
\* session, carrying the PGN of the session, is processed against that session:
\* the manager keeps running, and the session is removed with its completion
\* callback invoked with success=true if it waits for the EOM-ACK, and no
\* success is reported otherwise; success=true is reported for a
\* destination-specific session in no other step, and the session it is
\* reported for has emitted every packet it announced.
C11_EndOfMessageAcknowledge ==
    [][/\ \A message \in EndOfMessageFrames, budget \in ReplyBudgets, ub \in UBOutcomes :
            \A i \in AcknowledgedIndexes(message) :
                ReceiveWith(message, budget, ub) =>
                    /\ ~ crashed'
                    /\ IF activeSessions[i].state = "WaitForEndOfMessageAcknowledge"
                       THEN /\ activeSessions' = RemoveAt(activeSessions, i)
                            /\ SuccessReported(callbacks', activeSessions[i])
                       ELSE ~ SuccessReported(callbacks', activeSessions[i])
       /\ (\E c \in 1..Len(callbacks') :
              callbacks'[c].successful /\ callbacks'[c].destination # NULL)
          => /\ lastOp' = "receive"
             /\ \E i \in TransmitIndexes :
                   /\ activeSessions[i].state = "WaitForEndOfMessageAcknowledge"
                   /\ activeSessions[i].framesEmitted = activeSessions[i].announcedPackets
                   /\ SuccessReported(callbacks', activeSessions[i])
                   /\ activeSessions' = RemoveAt(activeSessions, i)]_vars

BroadcastTransmitIndexes(table) ==
    {i \in 1..Len(table) : table[i].dir = "Transmit" /\ table[i].global_destination}

AnnounceFramesOf(out, session) ==
    SelectSeq(out, LAMBDA f : /\ f.pgn = TP_CM /\ f.src = session.source /\ f.dst = NULL
                              /\ f.data[1] = BROADCAST_ANNOUNCE_MESSAGE_MULTIPLEXOR)

ReceiveIndexes == {i \in 1..Len(activeSessions) : activeSessions[i].dir = "Receive"}

EndOfMessageFramesOf(out, session) ==
    SelectSeq(out, LAMBDA f : /\ f.pgn = TP_CM /\ f.src = session.destination /\ f.dst = session.source
                              /\ f.data[1] = END_OF_MESSAGE_ACKNOWLEDGE_MULTIPLEXOR)

\* C13: a step that delivers a message invokes each of the two callbacks of the
\* network manager once, for one receive session that had accepted all packets
\* of its announcement but the last and now accepts the last; the message has
\* the announced packets' worth of payload, the session is removed in that
\* step, and an EOM-ACK frame is emitted for it exactly if it is
\* destination-specific (and the bus takes the frame).
C13_Delivery ==
    [][delivered' # <<>> =>
          /\ lastOp' = "receive"
          /\ Len(delivered') = 2
          /\ delivered'[1].via # delivered'[2].via
          /\ delivered'[1].msg = delivered'[2].msg
          /\ \E i \in ReceiveIndexes :
                LET session == activeSessions[i]
                    acks == EndOfMessageFramesOf(sent', session)
                IN  /\ session.state = "RxDataSession"
                    /\ session.lastPacketNumber + 1 = session.announcedPackets
                    /\ delivered'[1].msg.pgn = session.pgn
                    /\ delivered'[1].msg.src = session.source
                    /\ Len(delivered'[1].msg.data) > PROTOCOL_BYTES_PER_FRAME * session.lastPacketNumber
                    /\ activeSessions' = RemoveAt(activeSessions, i)
                    /\ Len(acks) <= 1
                    /\ acks # <<>> => ~ session.global_destination
                    /\ (~ session.global_destination /\ acks = <<>>) => sent' = <<>>]_vars

RequestToSendFrames ==
    {f \in RxFrames : /\ f.pgn = TP_CM /\ Len(f.data) = 8 /\ f.dst # NULL
                      /\ f.data[1] = REQUEST_TO_SEND_MULTIPLEXOR}

BroadcastAnnounceFrames ==
    {f \in RxFrames : /\ f.pgn = TP_CM /\ Len(f.data) = 8 /\ f.dst = NULL
                      /\ f.data[1] = BROADCAST_ANNOUNCE_MESSAGE_MULTIPLEXOR}

\* C14: in every state the manager can reach with max_tp_sessions sessions or
\* more in its table, handling a received RTS leaves the table as it is and
\* answers with one Abort frame with reason AlreadyInCMSession (1) from the
\* addressed control function to the sender of the RTS, and with nothing else
\* (with nothing at all if the bus refuses the frame); handling a received BAM
\* leaves the table as it is and sends no frame; in both cases no callback is
\* invoked and the manager keeps running.
C14_SessionCap ==
    (~ crashed /\ Len(activeSessions) >= config.maxSessions) =>
        /\ \A message \in RequestToSendFrames, budget \in ReplyBudgets, ub \in UBOutcomes :
              LET m == process_message(Manager(budget), Env(ub), message)
              IN  /\ ~ m.crashed
                  /\ m.s = activeSessions
                  /\ m.out = IF budget > 0
                             THEN << AbortFrame(message.dst, message.src, get_uint24_at(message, 5),
                                                AlreadyInCMSession) >>
                             ELSE <<>>
                  /\ m.cbs = <<>> /\ m.rx = <<>>
        /\ \A message \in BroadcastAnnounceFrames, budget \in ReplyBudgets, ub \in UBOutcomes :
              LET m == process_message(Manager(budget), Env(ub), message)
              IN  /\ ~ m.crashed
                  /\ m.s = activeSessions
                  /\ m.out = <<>>
                  /\ m.cbs = <<>> /\ m.rx = <<>>

\* an RTS was refused with the table at its cap
C14_Witness ==
    /\ lastOp = "receive"
    /\ ~ crashed
    /\ Len(activeSessions) >= config.maxSessions
    /\ Len(sent) = 1
    /\ sent[1].pgn = TP_CM
    /\ sent[1].data[1] = CONNECTION_ABORT_MULTIPLEXOR
    /\ sent[1].data[2] = AlreadyInCMSession
    /\ sent[1].src \in Internal /\ sent[1].dst \in External

\* C15: the number of sessions in the table never exceeds max_tp_sessions,
\* whatever transmit calls, received frames and updates led to the state.
C15_AdmissionCap ==
    Len(activeSessions) <= config.maxSessions

AbortFramesOf(out) ==
    SelectSeq(out, LAMBDA f : /\ f.pgn = TP_CM /\ Len(f.data) = 8
                              /\ f.data[1] = CONNECTION_ABORT_MULTIPLEXOR)

AbortReasons ==
    {AlreadyInCMSession, Timeout, UnexpectedDataTransferPacketReceived, BadSequenceNumber,
     DuplicateSequenceNumber, AnyOtherError}

\* the reason the sequence validation gives for TP.DT sequence number seq
SequenceAbortReason(session, seq) ==
    IF session.state # "RxDataSession" THEN UnexpectedDataTransferPacketReceived
    ELSE IF seq = session.lastPacketNumber THEN DuplicateSequenceNumber
    ELSE BadSequenceNumber

\* C16: for a broadcast session of the table no Abort frame is emitted: not by
\* aborting it for any reason (peer loss included), not by its step of the
\* update() state machine (timeouts included), not by any TP.DT frame sent to
\* the global address by its source; for a destination-specific receive
\* session whose two control functions are on the bus, a TP.DT frame of its
\* source with 8 data bytes that the session does not expect (it is not in
\* RxDataSession, or the sequence number is not the next one) is answered with
\* one Abort frame to the source, with the reason of the violation, and a
\* session whose timeout has expired is aborted by update() with one Abort
\* frame of reason Timeout to the peer.
C16_NoBroadcastAbort ==
    ~ crashed =>
        \A i \in 1..Len(activeSessions) :
            LET session == activeSessions[i]
                slot == [kind |-> "elem", i |-> i]
            IN  IF session.global_destination
                THEN \A budget \in Budgets, ub \in UBOutcomes :
                        /\ \A reason \in AbortReasons :
                              AbortFramesOf(abort_session(Manager(budget), Env(ub), session, reason).out) = <<>>
                        /\ AbortFramesOf(update_state_machine(Manager(budget), Env(ub), slot).out) = <<>>
                        /\ \A seq \in {0, 1, 2, 3}, len \in {7, 8} :
                              session.source \in alive =>
                                  AbortFramesOf(process_message(Manager(budget), Env(ub),
                                                    DtFrame(session.source, NULL, seq, len)).out) = <<>>
                ELSE /\ (session.dir = "Receive" /\ alive = CF) =>
                            \A seq \in {0, 1, 2, 3} :
                                (session.state = "RxDataSession" => seq # session.lastPacketNumber + 1) =>
                                    process_message(Manager(LinkBudget), Env(NoUB),
                                                    DtFrame(session.source, session.destination, seq, 8)).out
                                        = << AbortFrame(session.destination, session.source, session.pgn,
                                                        SequenceAbortReason(session, seq)) >>
                     /\ (/\ alive = CF
                         /\ \/ /\ session.state \in {"WaitForClearToSend", "WaitForEndOfMessageAcknowledge"}
                               /\ now - session.timestamp_ms > T2_T3_TIMEOUT_MS
                            \/ /\ session.state = "RxDataSession"
                               /\ now - session.timestamp_ms > MESSAGE_TR_TIMEOUT_MS) =>
                            update_state_machine(Manager(LinkBudget), Env(NoUB), slot).out
                                = << IF session.dir = "Transmit"
                                     THEN AbortFrame(session.source, session.destination, session.pgn, Timeout)
                                     ELSE AbortFrame(session.destination, session.source, session.pgn, Timeout) >>

ReceivedAbortFrames ==
    {f \in RxFrames : /\ f.pgn = TP_CM /\ Len(f.data) = 8 /\ f.dst # NULL
                      /\ f.data[1] = CONNECTION_ABORT_MULTIPLEXOR}

\* session is a session between the two peers of the Abort frame, in either
\* direction, for the PGN the frame names
AbortedBy(message, session) ==
    /\ \/ session.source = message.src /\ session.destination = message.dst
       \/ session.source = message.dst /\ session.destination = message.src
    /\ session.pgn = get_uint24_at(message, 5)

\* C17: in every state the manager can reach, handling a received Abort frame
\* removes exactly the sessions between the two peers (in either direction)
\* whose PGN is the PGN of the frame and leaves every other session as it is,
\* sends no frame, delivers nothing, keeps the manager running, and invokes the
\* completion callback with success=false once for every removed transmit
\* session that has one, and no other callback; a frame that matches no
\* session therefore changes nothing.
C17_ReceivedAbort ==
    ~ crashed =>
        \A message \in ReceivedAbortFrames, budget \in ReplyBudgets :
            \A ub \in (IF LookupMisses(message) THEN UBOutcomes ELSE {NoUB}) :
                LET m == process_message(Manager(budget), Env(ub), message)
                    matched == {i \in 1..Len(activeSessions) : AbortedBy(message, activeSessions[i])}
                    reported == {i \in matched : /\ activeSessions[i].dir = "Transmit"
                                                 /\ activeSessions[i].sessionCompleteCallback}
                IN  /\ ~ m.crashed
                    /\ m.s = SelectSeq(activeSessions, LAMBDA session : ~ AbortedBy(message, session))
                    /\ m.out = <<>>
                    /\ m.rx = <<>>
                    /\ Len(m.cbs) = Cardinality(reported)
                    /\ \A c \in 1..Len(m.cbs) :
                          /\ ~ m.cbs[c].successful
                          /\ \E i \in reported : /\ m.cbs[c].source = activeSessions[i].source
                                                 /\ m.cbs[c].destination = activeSessions[i].destination
                                                 /\ m.cbs[c].pgn = activeSessions[i].pgn

\* the time a session may wait in its state; 0 where no timeout applies
TimeoutLimit(session) ==
    IF session.state \in {"WaitForClearToSend", "WaitForEndOfMessageAcknowledge"} THEN T2_T3_TIMEOUT_MS
    ELSE IF session.state = "RxDataSession"
         THEN IF session.global_destination THEN T1_TIMEOUT_MS ELSE MESSAGE_TR_TIMEOUT_MS
         ELSE 0

SameSession(a, b) ==
    /\ a.source = b.source /\ a.destination = b.destination
    /\ a.dir = b.dir /\ a.pgn = b.pgn

TimeoutAbortOf(session) ==
    IF session.dir = "Transmit"
    THEN AbortFrame(session.source, session.destination, session.pgn, Timeout)
    ELSE AbortFrame(session.destination, session.source, session.pgn, Timeout)

\* C18: in every state the manager can reach, with every control function on
\* the bus and a bus that takes every frame, the next update() keeps the
\* manager running and, for every session of the table that waits in a state
\* with a timeout (1250 ms in WaitForClearToSend and
\* WaitForEndOfMessageAcknowledge, 200 ms in a destination-specific and 750 ms
\* in a broadcast RxDataSession): if the session has waited longer than its
\* limit it is removed, with an Abort frame of reason Timeout (3) to its peer
\* if it is destination-specific; if it has waited less than its limit it
\* stays in the table in its state; the update() sends one Abort frame for
\* every destination-specific session that has waited longer than its limit,
\* and no Abort frame for any other session short of its limit.
C18_Timeouts ==
    (~ crashed /\ alive = CF) =>
        \A ub \in (IF Len(activeSessions) >= 2 THEN UBOutcomes ELSE {NoUB}) :
            LET m == update(Manager(LinkBudget), Env(ub))
                aborts == AbortFramesOf(m.out)
                waited(session) == now - session.timestamp_ms
                timed == {i \in 1..Len(activeSessions) :
                             /\ TimeoutLimit(activeSessions[i]) > 0
                             /\ ~ activeSessions[i].global_destination}
            IN  /\ ~ m.crashed
                /\ Cardinality({i \in timed : waited(activeSessions[i]) > TimeoutLimit(activeSessions[i])})
                       <= Len(aborts)
                /\ Len(aborts)
                       <= Cardinality({i \in timed : waited(activeSessions[i]) >= TimeoutLimit(activeSessions[i])})
                /\ \A i \in 1..Len(activeSessions) :
                      LET session == activeSessions[i]
                          left == {j \in 1..Len(m.s) : SameSession(m.s[j], session)}
                      IN  TimeoutLimit(session) > 0 =>
                              /\ waited(session) > TimeoutLimit(session) =>
                                    /\ left = {}
                                    /\ ~ session.global_destination =>
                                           \E p \in 1..Len(aborts) : aborts[p] = TimeoutAbortOf(session)
                              /\ waited(session) < TimeoutLimit(session) =>
                                    \E j \in left : m.s[j].state = session.state

\* C19: in every state the manager can reach, the next update() keeps the
\* manager running, removes every session that has lost its source or, being
\* destination-specific, its destination, and invokes the completion callback
\* of every such transmit session that has one with success=false.
C19_EndpointLost ==
    ~ crashed =>
        \A ub \in (IF Len(activeSessions) >= 2 THEN UBOutcomes ELSE {NoUB}) :
            LET m == update(Manager(LinkBudget), Env(ub))
            IN  /\ ~ m.crashed
                /\ \A i \in 1..Len(activeSessions) :
                      LET session == activeSessions[i]
                      IN  ~ can_continue(alive, session) =>
                              /\ ~ \E j \in 1..Len(m.s) : SameSession(m.s[j], session)
                              /\ (session.dir = "Transmit" /\ session.sessionCompleteCallback) =>
                                     \E c \in 1..Len(m.cbs) :
                                         /\ ~ m.cbs[c].successful
                                         /\ m.cbs[c].source = session.source
                                         /\ m.cbs[c].pgn = session.pgn

DataTransferFrames == {f \in RxFrames : f.pgn = TP_DT}

\* C20: in every state the manager can reach, process_message handles a
\* received TP.DT frame of 8 data bytes as process_data_transfer_message does,
\* and a TP.DT frame of any other length leaves the manager as it is: no
\* session changes, nothing is sent, delivered or reported.
C20_DataTransferLength ==
    ~ crashed =>
        \A message \in DataTransferFrames, budget \in ReplyBudgets :
            \A ub \in (IF LookupMisses(message) THEN UBOutcomes ELSE {NoUB}) :
                process_message(Manager(budget), Env(ub), message)
                    = IF Len(message.data) = CAN_DATA_LENGTH
                      THEN process_data_transfer_message(Manager(budget), Env(ub), message)
                      ELSE Manager(budget)

Minimum(a, b) == IF a <= b THEN a ELSE b

\* C21: in every state the manager can reach, an update() emits at most
\* max_frames_per_tick TP.DT frames of any destination-specific transmit
\* session; and when such a session waits for a CTS and its destination clears
\* N > 0 packets, the next update() emits the first frames of that window, as
\* many as the window and max_frames_per_tick allow.
C21_FramesPerUpdate ==
    ~ crashed =>
        /\ \A budget \in Budgets :
              \A ub \in (IF Len(activeSessions) >= 2 THEN UBOutcomes ELSE {NoUB}) :
                  \A i \in TransmitIndexes :
                      ~ activeSessions[i].global_destination =>
                          Len(DataFramesOf(update(Manager(budget), Env(ub)).out, activeSessions[i]))
                              <= config.maxFramesPerUpdate
        /\ \A message \in ClearToSendFrames(1..255) :
              \A ub \in (IF LookupMisses(message) THEN UBOutcomes ELSE {NoUB}) :
                  \A i \in ClearedIndexes(message) :
                      LET cleared == process_message(Manager(LinkBudget), Env(ub), message)
                          updated == update([cleared EXCEPT !.out = <<>>], Env(ub))
                      IN  /\ ~ cleared.crashed
                          /\ ~ updated.crashed
                          /\ Len(DataFramesOf(updated.out, activeSessions[i]))
                                 = Minimum(message.data[2], config.maxFramesPerUpdate)

-----------------------------------------------------------------------------
(* Properties of the virtual terminal server *)

\* frames of clients, of every length the bus can carry up to nine bytes
AttachData ==
    { <<Function.WorkingSetMaintenanceMessage, 1, 3, 255, 255, 255, 255, 255>>,
      <<Function.WorkingSetMaintenanceMessage, 3, 4, 255, 255, 255, 255, 255>>,
      <<Function.WorkingSetMaintenanceMessage, 0, 3, 255, 255, 255, 255, 255>>,
      <<Function.WorkingSetMaintenanceMessage, 2, 3, 255, 255, 255, 255, 255>>,
      <<Function.WorkingSetMaintenanceMessage, 1, 3>>,
      <<Function.WorkingSetMaintenanceMessage, 1, 3, 255, 255, 255, 255>>,
      <<Function.WorkingSetMaintenanceMessage, 0>>,
      <<Function.GetMemoryMessage, 255, 0, 16, 0, 0, 255, 255>>,
      <<Function.GetMemoryMessage, 255, 0, 16>>,
      <<Function.EndOfObjectPoolMessage, 255, 255, 255, 255, 255, 255, 255>>,
      <<Function.ObjectPoolTransferMessage, 1, 2, 3, 4, 5, 6, 7>>,
      <<Function.ChangeNumericValueCommand>> \o Bytes16(5) \o <<255>> \o Bytes32(300),
      <<Function.ChangeStringValueCommand>> \o Bytes16(7) \o Bytes16(1) \o <<72>>,
      <<Function.ChangeStringValueCommand>> \o Bytes16(7) \o Bytes16(0),
      <<Function.ChangeStringValueCommand>> \o Bytes16(7) \o Bytes16(4) \o <<72, 105, 33, 33>> }

\* the frames of AttachData from the clients that have no managed working set
UnmanagedFrames ==
    {message \in {ClientFrame(source, data) : source \in Clients, data \in AttachData} :
        ~ check_if_source_is_managed_result(server, message)}

\* the negative acknowledgement of a frame of the ECU-to-VT PGN from source
NegativeAcknowledgementTo(source) ==
    Frame(Acknowledge, "I1", NULL,
          <<NegativeAcknowledgement, 255, 255, 255, get_address[source]>> \o PgnBytes(ECUtoVirtualTerminal))

\* the frame asks for a new working set: byte 0 is 0xFF and bit 0 of byte 1 is set
AsksForWorkingSet(message) ==
    get_uint8_at(message, 0) = 255 /\ get_uint8_at(message, 1) % 2 = 1

\* r is sv with one pristine working set of the source appended
Attached(sv, r, message) ==
    /\ Len(r.managedWorkingSetList) = Len(sv.managedWorkingSetList) + 1
    /\ SubSeq(r.managedWorkingSetList, 1, Len(sv.managedWorkingSetList)) = sv.managedWorkingSetList
    /\ LET ws == r.managedWorkingSetList[Len(r.managedWorkingSetList)]
       IN  ws.cf = message.src /\ ws.iopRawData = <<>> /\ ws.objects = <<>> /\ ws.state = "Idle"

\* nothing of the frame reached a command: no event, no response on the
\* VT-to-ECU PGN, the members of the server other than the list as before
NotDispatched(sv, r) ==
    /\ r.events = <<>>
    /\ \A k \in 1..Len(r.out) : r.out[k].pgn # VirtualTerminalToECU
    /\ [r EXCEPT !.managedWorkingSetList = <<>>, !.out = <<>>, !.budget = 0]
           = [sv EXCEPT !.managedWorkingSetList = <<>>, !.out = <<>>, !.budget = 0]

\* C22 as stated: a frame from a source without a managed working set creates
\* a working set for that source if and only if byte 0 is 0xFF and bit 0 of
\* byte 1 is set; any other frame creates none and is answered with a negative
\* acknowledgement; in neither case is the frame dispatched as a command.
C22_AttachAnyFrame ==
    ~ server.crashed =>
        \A message \in UnmanagedFrames :
            LET sv == ServerContext(LinkBudget)
                r == process_rx_message(sv, ServerEnv(<<>>, TRUE, TRUE), message)
            IN  /\ Attached(sv, r, message) <=> AsksForWorkingSet(message)
                /\ ~ AsksForWorkingSet(message) =>
                       /\ r.managedWorkingSetList = sv.managedWorkingSetList
                       /\ r.out = <<NegativeAcknowledgementTo(message.src)>>
                /\ NotDispatched(sv, r)

\* C22 (amended): the same for the frames that are at least eight bytes long,
\* or more than five bytes long with the ChangeStringValue function in byte 0,
\* the acknowledgement being sent when the network accepts it; a shorter frame
\* from such a source creates no working set and is not answered.
C22_ClientAttach ==
    ~ server.crashed =>
        \A message \in UnmanagedFrames, budget \in ReplyBudgets :
            LET sv == ServerContext(budget)
                r == process_rx_message(sv, ServerEnv(<<>>, TRUE, TRUE), message)
            IN  IF LongEnough(message)
                THEN /\ Attached(sv, r, message) <=> AsksForWorkingSet(message)
                     /\ AsksForWorkingSet(message) => r.out = <<>>
                     /\ ~ AsksForWorkingSet(message) =>
                            /\ r.managedWorkingSetList = sv.managedWorkingSetList
                            /\ r.out = IF budget > 0
                                       THEN <<NegativeAcknowledgementTo(message.src)>>
                                       ELSE <<>>
                     /\ NotDispatched(sv, r)
                ELSE r = sv

\* a client has just been given its working set, another client has none
C22_Witness ==
    /\ lastOp = "serverReceive"
    /\ Len(server.managedWorkingSetList) = 1
    /\ server.managedWorkingSetList[1] =
           [ManagedWorkingSet("E1") EXCEPT !.workingSetMaintenanceMessageTimestamp_ms = now]
    /\ now > 0
    /\ UnmanagedFrames # {}


\* the commands that change an object of the pool
MutatingFunctions ==
    {Function.ChangeNumericValueCommand, Function.HideShowObjectCommand,
     Function.EnableDisableObjectCommand, Function.ChangeChildLocationCommand,
     Function.ChangeChildPositionCommand, Function.ChangeActiveMaskCommand,
     Function.ChangeSoftKeyMaskCommand, Function.ChangeStringValueCommand,
     Function.ChangeFillAttributesCommand, Function.ChangeAttributeCommand,
     Function.ChangeSizeCommand, Function.ChangeListItemCommand,
     Function.ChangeFontAttributesCommand}

\* command frames of a client: a function code, an object ID of the pool or
\* one of no pool, a second ID or value, three more bytes, and a ninth byte
\* for the commands that arrive through the transport protocol
CommandData ==
    {<<function>> \o Bytes16(objectID) \o Bytes16(other) \o <<byte, 127, 0>> \o more :
        function \in MutatingFunctions, objectID \in (1..Len(PoolTypes)) \cup {77},
        other \in {0, 1, 2, 5, 300}, byte \in {0, 137}, more \in {<<>>, <<0>>}}

\* the error field of a response, at the place its send_..._response puts it
ErrorField(data) ==
    CASE data[1] \in {Function.ChangeActiveMaskCommand, Function.ChangeFillAttributesCommand,
                      Function.ChangeFontAttributesCommand, Function.ChangeSizeCommand,
                      Function.ChangeNumericValueCommand} -> data[4]
      [] data[1] \in {Function.ChangeAttributeCommand, Function.HideShowObjectCommand,
                      Function.EnableDisableObjectCommand} -> data[5]
      [] data[1] = Function.ChangeListItemCommand -> data[7]
      [] OTHER -> data[6]

\* the response to a command of client E1 in the state reached
Responded(r) ==
    /\ ~ r.crashed
    /\ r.out # <<>>
    /\ r.out[Len(r.out)].pgn = VirtualTerminalToECU

\* E1 has a parsed pool in its managed working set
HasPool ==
    /\ Len(server.managedWorkingSetList) = 1
    /\ server.managedWorkingSetList[1].objects # <<>>

\* C23: whenever the response to a command carries a non-zero error field,
\* the managed working set of the client (objects, raw pool data, parse state)
\* is as it was before the command and no event was fired.
C23_ErrorLeavesStateUnchanged ==
    \A data \in CommandData \cup {<<Function.LoadVersionCommand, 65, 66, 67, 68, 69, 70, 71>>} :
        LET sv == ServerContext(LinkBudget)
            r == process_rx_message(sv, ServerEnv(<<>>, TRUE, TRUE), ClientFrame("E1", data))
        IN  (HasPool /\ Responded(r) /\ ErrorField(r.out[Len(r.out)].data) # 0)
                => /\ r.managedWorkingSetList = sv.managedWorkingSetList
                   /\ r.events = <<>>


\* the calls of onRepaintEventDispatcher for the working set of a client
Repaints(r, client) ==
    {k \in 1..Len(r.events) : r.events[k].dispatcher = "onRepaint" /\ r.events[k].cf = client}

\* C24: a mutating command answered with error field 0 invokes the repaint
\* event dispatcher exactly once with the working set of the client, whatever
\* the command type; a command answered with an error invokes it zero times.
C24_RepaintOncePerSuccess ==
    \A data \in CommandData :
        LET r == process_rx_message(ServerContext(LinkBudget), ServerEnv(<<>>, TRUE, TRUE),
                                    ClientFrame("E1", data))
        IN  (HasPool /\ Responded(r))
                => Cardinality(Repaints(r, "E1")) =
                       IF ErrorField(r.out[Len(r.out)].data) = 0 THEN 1 ELSE 0


\* a ChangeChildLocation command with the raw bytes of the two deltas
ChildLocationData(parentObjectId, objectID, xRaw, yRaw) ==
    <<Function.ChangeChildLocationCommand>> \o Bytes16(parentObjectId) \o Bytes16(objectID)
        \o <<xRaw, yRaw, 255>>

\* the children of a parent with those of the given ID moved by the deltas
ChildrenMoved(children, objectID, xDelta, yDelta) ==
    [k \in 1..Len(children) |->
        IF children[k].id = objectID
        THEN [children[k] EXCEPT !.xLocation = @ + xDelta, !.yLocation = @ + yDelta]
        ELSE children[k]]

\* C25: ChangeChildLocation on an existing parent that has at least one child
\* with the target ID adds the deltas (raw - 127) to the location of every
\* such child and of no other child and replies with error field 0; the
\* error TargetObjectDoesNotExistOrIsNotApplicable is for a parent without
\* such a child only.
C25_ChangeChildLocation ==
    \A parentObjectId \in 1..Len(PoolTypes), objectID \in {3, 5, 6, 7, 9, 77}, xRaw \in {117, 127}, yRaw \in {127, 137} :
        LET sv == ServerContext(LinkBudget)
            r == process_rx_message(sv, ServerEnv(<<>>, TRUE, TRUE),
                                    ClientFrame("E1", ChildLocationData(parentObjectId, objectID, xRaw, yRaw)))
            before == get_object_by_id(sv.managedWorkingSetList[1], parentObjectId)
            after == get_object_by_id(r.managedWorkingSetList[1], parentObjectId)
        IN  (/\ HasPool
             /\ Responded(r)
             /\ \E k \in 1..Len(before.children) : before.children[k].id = objectID)
                => /\ after.children = ChildrenMoved(before.children, objectID, xRaw - 127, yRaw - 127)
                   /\ ErrorField(r.out[Len(r.out)].data) = 0

\* the delta of ChangeChildLocation that moved the first child of container 3
\* from where the pool put it
AppliedDelta(r) ==
    get_object_by_id(r.managedWorkingSetList[1], 3).children[1].xLocation
        - get_object_by_id(server.managedWorkingSetList[1], 3).children[1].xLocation

\* C26: the delta that ChangeChildLocation applies is raw - 127 for every raw
\* byte 0..255, a value between -127 and +128, without wrap-around.
C26_DeltaIsRawMinus127 ==
    \A raw \in 0..255 :
        LET r == process_rx_message(ServerContext(LinkBudget), ServerEnv(<<>>, TRUE, TRUE),
                                    ClientFrame("E1", ChildLocationData(3, 5, raw, 127)))
        IN  (HasPool /\ Responded(r)) => AppliedDelta(r) = raw - 127


\* a ChangeNumericValue command
NumericValueData(objectId, value) ==
    <<Function.ChangeNumericValueCommand>> \o Bytes16(objectId) \o <<255>> \o Bytes32(value)

\* C27: after a ChangeNumericValue command for a target of a numeric type the
\* value read back from the target is the 32-bit little-endian value of the
\* command, and the response carries error field 0 and the same four value
\* bytes.
C27_NumericValueReadBack ==
    \A objectId \in 1..Len(PoolTypes), value \in {0, 1, 255, 300, 65535, 65536, 305419896} :
        LET r == process_rx_message(ServerContext(LinkBudget), ServerEnv(<<>>, TRUE, TRUE),
                                    ClientFrame("E1", NumericValueData(objectId, value)))
            response == r.out[Len(r.out)].data
        IN  (HasPool /\ Responded(r) /\ PoolTypes[objectId] \in DOMAIN ValueWidth)
                => /\ get_value(get_object_by_id(r.managedWorkingSetList[1], objectId)) = value
                   /\ ErrorField(response) = 0
                   /\ SubSeq(response, 5, 8) = Bytes32(value)


\* ChangeStringValue commands: a target, a length field, and between none
\* and three bytes behind the length field
StringValueData ==
    {<<Function.ChangeStringValueCommand>> \o Bytes16(objectIdToChange) \o Bytes16(numberOfBytesInString)
        \o SubSeq(<<72, 105, 255>>, 1, remaining) :
        objectIdToChange \in {6, 7, 19, 20, 77}, numberOfBytesInString \in 0..4, remaining \in 0..3}

\* the handling of a ChangeStringValue command of E1 in the state reached
StringValueResult(data) ==
    process_rx_message(ServerContext(LinkBudget), ServerEnv(<<>>, TRUE, TRUE), ClientFrame("E1", data))

\* the target of the command is a StringVariable, an OutputString or an InputString
StringTarget(data) ==
    LET stringObject == get_object_by_id(server.managedWorkingSetList[1], get_uint16_at([data |-> data], 1))
    IN  /\ stringObject # NullObject
        /\ stringObject.type \in {"StringVariable", "OutputString", "InputString"}

\* the command was answered with an error and changed nothing
StringRefused(data) ==
    LET r == StringValueResult(data)
    IN  /\ Responded(r)
        /\ ErrorField(r.out[Len(r.out)].data) # 0
        /\ r.managedWorkingSetList = server.managedWorkingSetList

\* C28 as stated: ChangeStringValue changes the target only when it is a
\* StringVariable, OutputString or InputString and the length field equals
\* the number of bytes behind it; a length field that differs from that
\* number, larger or smaller, is answered with an error and changes nothing.
C28_LengthMustMatch ==
    \A data \in StringValueData :
        LET r == StringValueResult(data)
            numberOfBytesInString == get_uint16_at([data |-> data], 3)
        IN  HasPool =>
                /\ r.managedWorkingSetList # server.managedWorkingSetList
                       => StringTarget(data) /\ numberOfBytesInString = Len(data) - 5
                /\ numberOfBytesInString # Len(data) - 5 => StringRefused(data)

\* C28: ChangeStringValue changes the target only when it is a StringVariable,
\* OutputString or InputString and the length field is not larger than the
\* number of bytes behind it in a message of more than five bytes; the target
\* then holds the bytes the length field counts and the answer has error
\* field 0.  A length field larger than the number of bytes behind it is
\* answered with an error and changes nothing; a message of five bytes or
\* fewer is neither answered nor applied.
C28_ChangeStringValue ==
    \A data \in StringValueData :
        LET r == StringValueResult(data)
            objectIdToChange == get_uint16_at([data |-> data], 1)
            numberOfBytesInString == get_uint16_at([data |-> data], 3)
            fits == Len(data) > 5 /\ numberOfBytesInString <= Len(data) - 5
        IN  HasPool =>
                /\ r.managedWorkingSetList # server.managedWorkingSetList
                       => StringTarget(data) /\ fits
                /\ StringTarget(data) /\ fits
                       => /\ r.managedWorkingSetList =
                                 [server.managedWorkingSetList EXCEPT ![1].objects[objectIdToChange].stringValue =
                                     SubSeq(data, 6, 5 + numberOfBytesInString)]
                          /\ Responded(r)
                          /\ ErrorField(r.out[Len(r.out)].data) = 0
                /\ Len(data) > 5 /\ ~ fits => StringRefused(data)
                /\ Len(data) <= 5 => r = ServerContext(LinkBudget)

\* OutputString 7 has just been given the two bytes of a command whose length
\* field is smaller than the number of bytes behind it
C28_Witness ==
    /\ lastOp = "serverReceive"
    /\ HasPool
    /\ server.managedWorkingSetList[1].objects[7].stringValue = <<72, 105>>
    /\ Len(server.events) = 1
    /\ server.events[1].dispatcher = "onRepaint"
    /\ Responded(server)
    /\ server.out[Len(server.out)].data =
           ResponseBuffer(Function.ChangeStringValueCommand, 7, 0, 0, 0)


\* the EndOfObjectPool responses among the frames of a call of update()
EndOfObjectPoolResponses(r) ==
    {r.out[k].data : k \in {j \in 1..Len(r.out) :
                               /\ r.out[j].pgn = VirtualTerminalToECU
                               /\ r.out[j].data[1] = Function.EndOfObjectPoolMessage}}

\* C29: when update() finds the parse of a working set ended in Fail, the
\* EndOfObjectPool response it sends has a non-zero error indicator (byte 1)
\* and carries the faulting object ID; a response without error is sent only
\* for a parse that ended in Success.
C29_FailIsReported ==
    LET r == VirtualTerminalServer_update(ServerContext(LinkBudget), ServerEnv(<<>>, TRUE, TRUE))
        ws == server.managedWorkingSetList[1]
    IN  Len(server.managedWorkingSetList) = 1 =>
            /\ ws.state = "Fail"
                   => /\ EndOfObjectPoolResponses(r) # {}
                      /\ \A data \in EndOfObjectPoolResponses(r) :
                             /\ data[2] # 0
                             /\ <<data[5], data[6]>> = Bytes16(ws.faultingObjectID)
            /\ \A data \in EndOfObjectPoolResponses(r) : data[2] = 0 => ws.state = "Success"


\* every child ID of the object resolves to an object of the pool whose type
\* the parent's type permits
EveryChildPermitted(ws, object) ==
    \A k \in 1..Len(object.children) :
        LET childObject == get_object_by_id(ws, object.children[k].id)
        IN  /\ childObject # NullObject
            /\ childObject.type \in PermittedChildTypes[object.type]

\* C30: get_is_valid() of an object with children is true if and only if
\* every child ID resolves to an object of the pool of a type permitted for
\* the parent; a child ID that resolves to no object makes the parent invalid.
C30_ValidIffChildrenPermitted ==
    \A i \in 1..Len(server.managedWorkingSetList) :
        LET ws == server.managedWorkingSetList[i]
        IN  \A objectID \in DOMAIN ws.objects :
                ws.objects[objectID].type \in DOMAIN PermittedChildTypes
                    => (get_is_valid(ws, ws.objects[objectID])
                            <=> EveryChildPermitted(ws, ws.objects[objectID]))


\* the EndOfObjectPool message of a client
EndOfObjectPoolData == <<Function.EndOfObjectPoolMessage, 255, 255, 255, 255, 255, 255, 255>>

\* commands a client sends behind its EndOfObjectPool message
LaterCommands ==
    {data \in StringValueData : Len(data) > 5}
        \cup {NumericValueData(objectId, 1) : objectId \in {5, 6, 77}}
        \cup {ChildLocationData(3, 5, 137, 127), ChildLocationData(3, 77, 137, 127)}

\* the parse that an EndOfObjectPool message started has not been answered:
\* the worker runs, or has ended and update() has not looked yet
ParsePending(ws) == ws.state \in {"Running", "Success", "Fail"}

\* the handling of a command of E1 in the state reached
CommandResult(data) ==
    process_rx_message(ServerContext(LinkBudget), ServerEnv(<<>>, TRUE, TRUE), ClientFrame("E1", data))

DuringParseCommands ==
    LaterCommands \cup {EndOfObjectPoolData,
                        <<Function.ObjectPoolTransferMessage, 1, 2, 3, 4, 5, 6, 7>>,
                        <<Function.LoadVersionCommand, 65, 66, 67, 68, 69, 70, 71>>}

\* C32: while the parse worker of a working set is Running, no command of the
\* client changes the objects or the raw pool bytes of that working set: the
\* storage the worker uses is as it was when the command has been handled.
C32_DispatchKeepsOffPool ==
    \A data \in DuringParseCommands, loadedVersion \in {<<>>, <<9, 9>>} :
        LET r == process_rx_message(ServerContext(LinkBudget), ServerEnv(loadedVersion, TRUE, TRUE),
                                    ClientFrame("E1", data))
        IN  (Len(server.managedWorkingSetList) = 1 /\ server.managedWorkingSetList[1].state = "Running")
                => /\ r.managedWorkingSetList[1].objects = server.managedWorkingSetList[1].objects
                   /\ r.managedWorkingSetList[1].iopRawData = server.managedWorkingSetList[1].iopRawData


-----------------------------------------------------------------------------
(* Properties of the transport protocol: windows, lookups and the table *)

\* C33: a destination-specific transmit session that waits for a CTS and
\* receives from its destination a CTS for its PGN whose next sequence number
\* is the number of packets it has sent so far plus one accepts the CTS and
\* resumes the transfer with the granted window, in the first window and in
\* every later one.
C33_ClearToSendResumes ==
    ~ crashed =>
        \A i \in TransmitIndexes, packetsToBeSent \in {1, 2}, budget \in ReplyBudgets :
            LET session == activeSessions[i]
                message == CtsFrame(session.destination, session.source, session.pgn,
                                    packetsToBeSent, session.framesEmitted + 1)
            IN  (/\ session.destination # NULL
                 /\ {session.source, session.destination} \subseteq alive
                 /\ session.state = "WaitForClearToSend")
                    => \A ub \in (IF LookupMisses(message) THEN UBOutcomes ELSE {NoUB}) :
                           LET m == process_message(Manager(budget), Env(ub), message)
                           IN  /\ ~ m.crashed
                               /\ Len(m.s) = Len(activeSessions)
                               /\ m.s[i].state = "TxDataSession"
                               /\ m.s[i].packetCount = packetsToBeSent
                               /\ m.s[i].processedPacketsThisSession = session.framesEmitted


\* the CTS frames among the frames of a call that grant a receive session its
\* next window
NextWindowFrames(out, session) ==
    LET packetsRemaining == session.packetCount - (session.processedPacketsThisSession + 1)
    IN  {k \in 1..Len(out) :
            out[k] = CtsFrame(session.destination, session.source, session.pgn,
                              Minimum(session.clearToSendPacketMax, packetsRemaining),
                              session.processedPacketsThisSession + 2)}

\* C34: a receive session of a message with more packets than one CTS window
\* grants, on the last packet of a granted window with packets remaining,
\* keeps the packet and grants the next window: it sends a CTS with window
\* min(maximum, remaining packets) and next sequence number packets received
\* + 1, at once or from the state ClearToSend in the next update().
C34_NextWindowGranted ==
    ~ crashed =>
        \A i \in ReceiveIndexes, budget \in ReplyBudgets :
            LET session == activeSessions[i]
                message == DtFrame(session.source, session.destination,
                                   session.lastPacketNumber + 1, CAN_DATA_LENGTH)
            IN  (/\ session.destination # NULL
                 /\ {session.source, session.destination} \subseteq alive
                 /\ session.state = "RxDataSession"
                 /\ session.clearToSendPacketMax \in 1..(session.packetCount - 1)
                 /\ (session.processedPacketsThisSession + 1) % session.clearToSendPacketMax = 0
                 /\ session.processedPacketsThisSession + 1 < session.packetCount)
                    => \A ub \in (IF LookupMisses(message) THEN UBOutcomes ELSE {NoUB}) :
                           LET m == process_message(Manager(budget), Env(ub), message)
                           IN  /\ ~ m.crashed
                               /\ Len(m.s) = Len(activeSessions)
                               /\ m.s[i].processedPacketsThisSession = session.processedPacketsThisSession + 1
                               /\ \/ m.s[i].state = "ClearToSend"
                                  \/ budget > 0 /\ NextWindowFrames(m.out, session) # {}


\* the sessions of the table from source to destination
SessionsBetween(source, destination) ==
    {k \in 1..Len(activeSessions) :
        /\ activeSessions[k].source = source
        /\ activeSessions[k].destination = destination}

\* C35: get_session(source, destination) returns the active session whose
\* source and destination match and nullptr when no active session matches;
\* a CTS for which no session exists is then answered with an Abort and
\* changes no session.
C35_GetSessionOrNull ==
    ~ crashed =>
        /\ \A source \in CF, destination \in CF \cup {NULL}, ub \in UBOutcomes :
               LET sp == get_session(Manager(LinkBudget), Env(ub), source, destination)
               IN  IF SessionsBetween(source, destination) = {}
                   THEN sp.kind = "null"
                   ELSE sp.kind = "elem" /\ sp.i \in SessionsBetween(source, destination)
        /\ \A message \in ClearToSendFrames({2}), ub \in UBOutcomes :
               SessionsBetween(message.src, message.dst) = {}
                   => LET m == process_message(Manager(LinkBudget), Env(ub), message)
                      IN  /\ ~ m.crashed
                          /\ m.s = activeSessions
                          /\ m.out = <<AbortFrame(message.dst, message.src,
                                                  get_uint24_at(message, 5), AnyOtherError)>>


\* what tells one transmit session from another in a callback: the source, the
\* locked destination, the PGN and the length of the payload
SameTransfer(al, session, callback) ==
    /\ session.dir = "Transmit"
    /\ session.sessionCompleteCallback
    /\ session.source = callback.source
    /\ Lock(al, session.destination) = callback.destination
    /\ session.pgn = callback.pgn
    /\ get_message_data_length(session) = callback.dataLength

\* the number of elements of a sequence that satisfy the test with callback
TransfersIn(al, table, callback) ==
    Cardinality({k \in 1..Len(table) : SameTransfer(al, table[k], callback)})

\* C36: the completion callback of a transmit session is invoked only for a
\* session that is being closed, and at most once for it: in one update(),
\* and in that update() followed by a second one, a transfer is reported no
\* more often than sessions of that transfer have left the table.
C36_CallbackOncePerClosedSession ==
    ~ crashed =>
        \A budget \in Budgets :
            \A ub \in (IF Len(activeSessions) >= 2 THEN UBOutcomes ELSE {NoUB}) :
                LET first == update(Manager(budget), Env(ub))
                    second == update([first EXCEPT !.budget = budget], Env(ub))
                    reports(m, callback) ==
                        Cardinality({c \in 1..Len(m.cbs) : m.cbs[c] = callback})
                IN  /\ ~ first.crashed =>
                        \A c \in 1..Len(first.cbs) :
                            reports(first, first.cbs[c]) <=
                                TransfersIn(alive, activeSessions, first.cbs[c])
                                    - TransfersIn(alive, first.s, first.cbs[c])
                    /\ ~ first.crashed /\ ~ second.crashed =>
                        \A c \in 1..Len(second.cbs) :
                            reports(second, second.cbs[c]) <=
                                TransfersIn(alive, activeSessions, second.cbs[c])
                                    - TransfersIn(alive, second.s, second.cbs[c])


\* C37: close_session(s) removes from the active table exactly the session s
\* it was called for and leaves every other session in the table as it is,
\* whatever sessions the table holds.
C37_CloseRemovesThatSession ==
    ~ crashed =>
        \A i \in 1..Len(activeSessions), successful \in BOOLEAN :
            close_session(Manager(LinkBudget), Env(NoUB), activeSessions[i], successful).s
                = RemoveAt(activeSessions, i)


\* one pass over the sessions that were in the table when update() was
\* called: each of them is handled once where it now is in the table, and a
\* session that has left the table in the meantime is passed over
RECURSIVE HandledOnce(_, _, _)
HandledOnce(m, e, sessions) ==
    IF sessions = <<>> \/ m.crashed THEN m
    ELSE LET at == FirstIndex({k \in 1..Len(m.s) : m.s[k] = Head(sessions)})
             m1 == IF at = 0 THEN m
                   ELSE IF ~ can_continue(e.alive, m.s[at])
                   THEN abort_session(m, e, m.s[at], AnyOtherError)
                   ELSE update_state_machine(m, e, [kind |-> "elem", i |-> at])
         IN  HandledOnce(m1, e, Tail(sessions))

\* C38: a call of update() handles every session that is in the table at the
\* start of the call exactly once, also when sessions are closed and erased
\* during the pass: it reads no slot behind the end of the table, so it
\* keeps running whatever such a slot holds, and its result is that of
\* handling each of those sessions once.
C38_EverySessionHandledOnce ==
    ~ crashed =>
        \A budget \in Budgets, ub \in UBOutcomes :
            LET m == update(Manager(budget), Env(ub))
            IN  /\ ~ m.crashed
                /\ m = HandledOnce(Manager(budget), Env(ub), activeSessions)


C40_InitializeTracked ==
    (~ server.crashed /\ \E k \in 1..Len(server.rxCallbacks) : server.rxCallbacks[k] = RxCallback) =>
        LET sv == ServerContext(0)
            destroyed == VirtualTerminalServer_destructor(sv)
        IN  /\ get_initialized(sv)
            /\ initialize(sv).rxCallbacks = sv.rxCallbacks
            /\ \A k \in 1..Len(destroyed.rxCallbacks) : destroyed.rxCallbacks[k] # RxCallback

=============================================================================
